---- MODULE Spec2Model ----
(***************************************************************************)
(* Verification model of the inventory application.                        *)
(*                                                                         *)
(* Three specifications share the variables below:                         *)
(*   Spec        the edit-tracking table model (DataModel / PandasModel),  *)
(*               its table widget and the save / refresh pipeline of       *)
(*               InventoryWindow.do_db_work against one database table;    *)
(*   SpecBridge  the AsyncHelper bridge between the Qt event loop and the  *)
(*               asyncio event loop;                                       *)
(*   SpecSession the ORM session context manager (commit / rollback).      *)
(* Each specification leaves the variables of the other two untouched.     *)
(*                                                                         *)
(* Row positions and pandas index labels are 0-based as in the source; the *)
(* row at position p of a dataframe df is df[p + 1].                       *)
(***************************************************************************)
EXTENDS Integers, Sequences, FiniteSets, TLC

(***************************************************************************)
(* Bounds of the model.                                                    *)
(***************************************************************************)
MaxVal == 1          \* cell values are 0..MaxVal
MaxInit == 2         \* rows stored in the table when the application starts
MaxRows == 3         \* rows the in-memory dataframe may hold
MaxId == 3           \* largest id of a row, in the table or in memory
MaxTasks == 3        \* actions started through the bridge
MaxAwaits == 1       \* database calls awaited by one task
MaxKey == 2          \* keys of the table behind an ORM session
MaxItems == 2        \* items of the item table
MaxSkus == 2         \* rows the SKU table may hold
MaxQty == 1          \* largest quantity entered or stored at the start
MaxTr == 2           \* rows the transaction table may hold
MaxStored == 5          \* transactions stored for the paged model
MaxCount == 4           \* largest max_transaction_count
PAGE_SIZE == 2          \* TransactionModel.PAGE_SIZE, scaled down from 100
MaxPage == 3            \* _current_page is counted up to here
MaxNames == 2           \* distinct category and item names
MaxCreated == 2         \* categories, and items, ever created
MaxChildren == 1        \* SKUs, and transactions, ever created
MaxStaged == 2          \* unsaved rows a widget's model holds

Values == 0 .. MaxVal

(***************************************************************************)
(* constants.py: RowFlags                                                  *)
(***************************************************************************)
OriginalRow == 0
NewRow == 1
ChangedRow == 2
DeletedRow == 4

\* flag & bit > 0, for a single-bit mask
HasFlag(flag, bit) == (flag \div bit) % 2 = 1
\* flag | bit
FlagOr(flag, bit) == IF HasFlag(flag, bit) THEN flag ELSE flag + bit
\* flag ^ bit
FlagXor(flag, bit) == IF HasFlag(flag, bit) THEN flag - bit ELSE flag + bit

VARIABLES
    \* ---- table model (Spec) ----
    model_df,             \* DataModel.model_df: sequence of rows [label, id, val, flag]
    lab_df,               \* Lab().table_df[table]: rows [id, val] of the last fetch
    db,                   \* the database table: function id -> val
    db_seq,               \* next id of the table's id sequence (DEFAULT)
    new_rows_set,         \* PandasModel.new_rows_set (positions)
    uneditable_rows_set,  \* PandasModel.uneditable_rows_set (positions)
    is_editable,          \* PandasModel.is_editable
    edit_mode,            \* ItemWidget.edit_mode.isChecked()
    msg,                  \* the result dialog of do_db_work, or NoMsg
    pre_del,              \* history: id -> flag the row had when it was flagged Deleted
    last,                 \* history: the handler that ran last and its arguments
    exited,               \* diff_row called exit(1)
    \* ---- AsyncHelper (SpecBridge) ----
    phase,                \* asyncio loop: "idle" (not running), "select", "run"
    stopping,             \* loop._stopping, set by loop.stop()
    ready,                \* loop._ready: the callbacks scheduled with call_soon
    todo,                 \* callbacks of the current iteration still to run
    qt,                   \* ReenterQtEvents posted to the Qt loop (their action)
    tasks,                \* the tasks created for entry(action)
    done,                 \* AsyncHelper.done
    msgbox,               \* task whose result dialog is open (nested Qt loop), or 0
    run_posts,            \* history: events posted during the current (last) run
    run_iters,            \* history: iterations started in the current (last) run
    bstep,                \* history: the step of the bridge taken last
    \* ---- ORM session (SpecSession) ----
    store,                \* committed rows of the database (a set of keys)
    work,                 \* rows as the open session sees them
    pc,                   \* where the session context manager is
    exc,                  \* exception in flight
    ended,                \* history: how the last session ended
    \* ---- SKU and transaction table models (SpecStock) ----
    item_active,          \* ItemModel: item_id -> active
    sku_lab,              \* the SKU rows as fetched from the database
    sku_df,               \* SkuModel.model_df
    sku_upper_id,         \* SkuModel.selected_upper_id (0 is None)
    tr_df,                \* TrModel.model_df
    tr_db,                \* the stored transactions, oldest first
    tr_upper_id,          \* TrModel.selected_upper_id (0 is None)
    tr_window,            \* a SingleTrWindow is open on the last row
    slast,                \* history: the handler that ran last, its inputs and outcome
    \* ---- quantity validators (SpecValidate) ----
    vin,                  \* the transaction handed to a validator
    vout,                 \* history: the validator that ran and its result
    \* ---- paged TransactionModel (SpecPage, SpecPaging) ----
    backend,              \* the database the engine talks to
    n_stored,             \* number of stored transactions the query matches
    page_data,            \* TransactionModel._data: the tr_ids held in memory
    current_page,         \* TransactionModel._current_page
    total_records,        \* TransactionModel._total_records
    max_transaction_count,\* TransactionModel.max_transaction_count
    plast,                \* history: the call made last and its outcome
    \* ---- category and item tables (SpecCatalog) ----
    categories,           \* stored categories: records [id, name]
    items,                \* stored items: records [id, name, category_id]
    sku_tbl,              \* stored SKUs
    tr_tbl,               \* stored transactions
    cat_seq,              \* categories created so far
    item_seq,             \* items created so far
    sku_seq,              \* SKUs created so far
    tr_seq,               \* transactions created so far
    gone,                 \* history: the rows deleted so far
    clast,                \* history: the call made last and its outcome
    \* ---- edit locks of the three table widgets (SpecLock) ----
    edit_enabled,         \* edit_mode.isEnabled() of each widget
    edit_checked,         \* edit_mode.isChecked() of each widget
    staged,               \* unsaved New rows each widget's model holds
    tr_flagged,           \* stored transactions flagged Deleted, not saved
    user_privilege,       \* DataModel.get_user_privilege()
    tr_window_open        \* a SingleTrWindow is shown

modelVars == <<model_df, lab_df, db, db_seq, new_rows_set, uneditable_rows_set,
               is_editable, edit_mode, msg, pre_del, last, exited>>

bridgeVars == <<phase, stopping, ready, todo, qt, tasks, done, msgbox,
                run_posts, run_iters, bstep>>

sessionVars == <<store, work, pc, exc, ended>>

stockVars == <<item_active, sku_lab, sku_df, sku_upper_id, tr_df, tr_db,
               tr_upper_id, tr_window, slast>>

validateVars == <<vin, vout>>

pageVars == <<backend, n_stored, page_data, current_page, total_records,
              max_transaction_count, plast>>

catalogVars == <<categories, items, sku_tbl, tr_tbl, cat_seq, item_seq, sku_seq,
                 tr_seq, gone, clast>>

lockVars == <<edit_enabled, edit_checked, staged, tr_flagged, user_privilege,
             tr_window_open>>

vars == <<modelVars, bridgeVars, sessionVars, stockVars, validateVars,
          pageVars, catalogVars, lockVars>>

(***************************************************************************)
(* Dataframe helpers.                                                      *)
(***************************************************************************)
At(df, p) == df[p + 1]
Positions(df) == 0 .. Len(df) - 1
Labels(df) == {df[i].label : i \in DOMAIN df}
Ids(df) == {df[i].id : i \in DOMAIN df}
MaxOf(S) == CHOOSE x \in S : \A y \in S : y <= x
EmptyFn == [x \in {} |-> 0]

\* iloc[r]: a negative position counts from the end (r = -1 is the last row)
ILoc(df, r) == IF r < 0 THEN df[Len(df) + r + 1] ELSE df[r + 1]

RECURSIVE SortedSeq(_)
SortedSeq(S) ==
    IF S = {} THEN <<>>
    ELSE LET m == CHOOSE x \in S : \A y \in S : x <= y
         IN <<m>> \o SortedSeq(S \ {m})

\* pd.concat(..., ignore_index=True) / a fresh DataFrame: labels 0 .. n-1
ResetIndex(df) == [i \in DOMAIN df |-> [df[i] EXCEPT !.label = i - 1]]

\* Lab._get_df_from_db: the rows of the table (SELECT *), in id order.  The
\* select is taken to succeed (select_query does not return None).
GetDfFromDb(d) ==
    LET ids == SortedSeq(DOMAIN d)
    IN [i \in DOMAIN ids |-> [id |-> ids[i], val |-> d[ids[i]]]]

\* DataModel._set_model_df with set_add_on_cols: every row flagged Original
SetModelDf(lab) ==
    [i \in DOMAIN lab |->
        [label |-> i - 1, id |-> lab[i].id, val |-> lab[i].val, flag |-> OriginalRow]]

get_new_df(df) == SelectSeq(df, LAMBDA r : HasFlag(r.flag, NewRow))
get_deleted_df(df) == SelectSeq(df, LAMBDA r : HasFlag(r.flag, DeletedRow))
\* variant: every flagged row is taken for a changed row
get_changed_df_flagged(df) == SelectSeq(df, LAMBDA r : r.flag # OriginalRow)
get_changed_df(df) == SelectSeq(df, LAMBDA r : HasFlag(r.flag, ChangedRow))

\* DataModel.is_model_editing
is_model_editing(df) == \E i \in DOMAIN df : df[i].flag # OriginalRow

\* DataModel.drop_rows: model_df.drop(pd.Index(indexes)) drops by LABEL and
\* raises KeyError, dropping nothing, when a label is not in the index
DropRaises(df, labels) == \E l \in labels : l \notin Labels(df)
drop_rows(df, labels) == SelectSeq(df, LAMBDA r : r.label \notin labels)

(***************************************************************************)
(* The database table behind Lab().insert_df / update_df / delete_df.      *)
(* DbUtil.executemany runs one statement per row and returns None on       *)
(* success, or the exception (or "Connection failed") on failure; a failed *)
(* batch leaves the table as it was.                                       *)
(***************************************************************************)
\* variant: the delete statement matches no row
db_delete_skipped(d, rows) == d
db_delete(d, rows) == [i \in (DOMAIN d) \ Ids(rows) |-> d[i]]

db_insert(d, seq, rows) ==
    [i \in (DOMAIN d) \cup (seq .. seq + Len(rows) - 1) |->
        IF i \in DOMAIN d THEN d[i] ELSE rows[i - seq + 1].val]

db_update(d, rows) ==
    [i \in DOMAIN d |->
        IF i \in Ids(rows)
        THEN rows[CHOOSE j \in DOMAIN rows : rows[j].id = i].val
        ELSE d[i]]

\* the statements of one batch, one per row in dataframe order
OpsOf(kind, rows) == [i \in DOMAIN rows |-> [kind |-> kind, id |-> rows[i].id]]

\* variant: the insert batch is sent first
SaveOpsInsertFirst(del_df, new_df, chg_df) ==
    OpsOf("insert", new_df) \o OpsOf("delete", del_df) \o OpsOf("update", chg_df)

\* the order in which save_to_db issues its batches
SaveOps(del_df, new_df, chg_df) ==
    OpsOf("delete", del_df) \o OpsOf("insert", new_df) \o OpsOf("update", chg_df)

\* what a batch may answer: nothing is sent for an empty dataframe
BatchOutcomes(rows) == IF rows = <<>> THEN {TRUE} ELSE BOOLEAN

ResultOf(rows, ok) == IF rows = <<>> THEN "none" ELSE IF ok THEN "ok" ELSE "fail"

(***************************************************************************)
(* DataModel.save_to_db.  od, oi, ou: whether the delete, insert and       *)
(* update batch succeeds.  The rows flagged Deleted are dropped from the   *)
(* dataframe before the delete is sent; the flags of the other rows are    *)
(* not touched here.                                                       *)
(***************************************************************************)
save_to_db(df, d, seq, od, oi, ou) ==
    LET del_df == get_deleted_df(df)
        df1 == IF del_df # <<>> THEN drop_rows(df, Labels(del_df)) ELSE df
        d1 == IF del_df # <<>> /\ od THEN db_delete(d, del_df) ELSE d
        new_df == get_new_df(df1)
        insOk == new_df # <<>> /\ oi
        d2 == IF insOk THEN db_insert(d1, seq, new_df) ELSE d1
        chg_df == get_changed_df(df1)
        d3 == IF chg_df # <<>> /\ ou THEN db_update(d2, chg_df) ELSE d2
    IN [df |-> df1,
        db |-> d3,
        seq |-> IF insOk THEN seq + Len(new_df) ELSE seq,
        ninsert |-> Len(new_df),
        ops |-> SaveOps(del_df, new_df, chg_df),
        results |-> [delete |-> ResultOf(del_df, od),
                     insert |-> ResultOf(new_df, oi),
                     update |-> ResultOf(chg_df, ou)]]

\* the rows staged in a dataframe: every row whose flag is not Original
Staged(df) == {[id |-> df[i].id, flag |-> df[i].flag] : i \in DOMAIN df
                  \cap {j \in DOMAIN df : df[j].flag # OriginalRow}}

NoMsg == [shown |-> FALSE, ops |-> <<>>,
          results |-> [delete |-> "none", insert |-> "none", update |-> "none"],
          staged |-> {}]

\* history record: the handler, the rows it was called on, whether it raised
Did(op, rows, raised) ==
    [op |-> op, rows |-> rows, raised |-> raised, warned |-> FALSE]

(***************************************************************************)
(* Init: Lab.async_init has fetched the table and DataModel.__init__ has   *)
(* built model_df from it.                                                 *)
(***************************************************************************)
InitModel ==
    /\ \E n \in 0 .. MaxInit : db \in [1 .. n -> Values]
    /\ db_seq = Cardinality(DOMAIN db) + 1
    /\ lab_df = GetDfFromDb(db)
    /\ model_df = SetModelDf(lab_df)
    /\ new_rows_set = {}
    /\ uneditable_rows_set = {}
    /\ is_editable = FALSE
    /\ edit_mode = FALSE
    /\ msg = NoMsg
    /\ pre_del = EmptyFn
    /\ last = Did("init", {}, FALSE)
    /\ exited = FALSE

\* a handler of the UI loop can run: the process is alive and no modal
\* result dialog is open
UiReady == ~exited /\ ~msg.shown

(***************************************************************************)
(* ItemWidget.edit_mode_clicked                                            *)
(***************************************************************************)
\* variant: edit mode can be left whatever the model holds
CanEndEditingAlways(df) == TRUE

\* the test of edit_mode_clicked before edit_mode_ends
CanEndEditing(df) == ~is_model_editing(df)

edit_mode_clicked ==
    /\ UiReady
    /\ \E checked \in BOOLEAN :
        /\ checked # edit_mode
        /\ IF checked
           THEN \* edit_mode_starts
                /\ edit_mode' = TRUE
                /\ is_editable' = TRUE
                /\ last' = Did("edit_mode_clicked", {}, FALSE)
           ELSE IF ~CanEndEditing(model_df)
           THEN \* refused: QMessageBox.information, the box is checked again
                /\ edit_mode' = TRUE
                /\ UNCHANGED is_editable
                /\ last' = [Did("edit_mode_clicked", {}, FALSE)
                               EXCEPT !.warned = TRUE]
           ELSE \* edit_mode_ends
                /\ edit_mode' = FALSE
                /\ is_editable' = FALSE
                /\ last' = Did("edit_mode_clicked", {}, FALSE)
    /\ UNCHANGED <<model_df, lab_df, db, db_seq, new_rows_set,
                   uneditable_rows_set, msg, pre_del, exited>>

(***************************************************************************)
(* InventoryTableWidget.add_new_row -> DataModel.append_new_row            *)
(***************************************************************************)
DefaultVal == 0

make_a_new_row_df(next_new_id) ==
    [label |-> 0, id |-> next_new_id, val |-> DefaultVal, flag |-> NewRow]

append_new_row ==
    /\ UiReady
    /\ edit_mode
    /\ Len(model_df) < MaxRows
    /\ LET next_new_id == IF model_df = <<>> THEN 1 ELSE MaxOf(Ids(model_df)) + 1
       IN /\ next_new_id <= MaxId
          /\ model_df' = ResetIndex(Append(model_df, make_a_new_row_df(next_new_id)))
          /\ new_rows_set' = new_rows_set \cup {Len(model_df)}
    /\ last' = Did("append_new_row", {}, FALSE)
    /\ UNCHANGED <<lab_df, db, db_seq, uneditable_rows_set, is_editable,
                   edit_mode, msg, pre_del, exited>>

(***************************************************************************)
(* DataModel.setData, set_chg_flag, diff_row                               *)
(***************************************************************************)
\* variant: every edit counts as a difference
diff_row_always(df, lab, p) == TRUE

\* diff_row: the row at position p differs from the row at position p of
\* the dataframe fetched from the database
diff_row(df, lab, p) ==
    \/ At(lab, p).id # At(df, p).id
    \/ At(lab, p).val # At(df, p).val

\* diff_row calls exit(1) when the position is beyond the fetched rows
DiffRowExits(lab, p) == p >= Len(lab)

\* DataFrame.compare raises ValueError unless both rows carry the same label
DiffRowRaises(df, p) == At(df, p).label # p

set_chg_flag(df, lab, p) ==
    IF diff_row(df, lab, p)
    THEN [df EXCEPT ![p + 1].flag = FlagOr(@, ChangedRow)]
    ELSE df

\* the row is left alone by setData: its Deleted bit is set
SetDataRefused(flag) == HasFlag(flag, DeletedRow)

\* after the value is stored, the change flag is looked at unless the row is New
SetDataSkipsChgFlag(flag) == HasFlag(flag, NewRow)

setData ==
    /\ UiReady
    /\ is_editable
    /\ \E p \in Positions(model_df), v \in Values :
        /\ p \notin uneditable_rows_set
        /\ LET flag == At(model_df, p).flag
               stored == [model_df EXCEPT ![p + 1].val = v]
           IN IF SetDataRefused(flag)
              THEN /\ UNCHANGED <<model_df, exited>>
                   /\ last' = Did("setData", {p}, FALSE)
              ELSE IF SetDataSkipsChgFlag(flag)
              THEN /\ model_df' = stored
                   /\ UNCHANGED exited
                   /\ last' = Did("setData", {p}, FALSE)
              ELSE IF DiffRowExits(lab_df, p)
              THEN /\ model_df' = stored
                   /\ exited' = TRUE
                   /\ last' = Did("setData", {p}, TRUE)
              ELSE IF DiffRowRaises(stored, p)
              THEN /\ model_df' = stored
                   /\ UNCHANGED exited
                   /\ last' = Did("setData", {p}, TRUE)
              ELSE /\ model_df' = set_chg_flag(stored, lab_df, p)
                   /\ UNCHANGED exited
                   /\ last' = Did("setData", {p}, FALSE)
    /\ UNCHANGED <<lab_df, db, db_seq, new_rows_set, uneditable_rows_set,
                   is_editable, edit_mode, msg, pre_del>>

(***************************************************************************)
(* DataModel.set_del_flag for the index rows R (a row of -1 is an invalid  *)
(* QModelIndex).  New rows are dropped, the Deleted bit of the others is   *)
(* toggled.  The result record carries the new dataframe, row sets and     *)
(* delete history, and whether drop_rows raised KeyError (nothing changed). *)
(***************************************************************************)
\* variant: no row is taken for a New row
IsNewIndexNever(df, r) == FALSE

\* is_new: flag & RowFlags.NewRow
IsNewIndex(df, r) == HasFlag(ILoc(df, r).flag, NewRow)

\* variant: the flag is replaced instead of toggled bitwise
ToggleDeletedExclusive(flag) == IF HasFlag(flag, DeletedRow) THEN OriginalRow ELSE DeletedRow

\* curr_flag ^= RowFlags.DeletedRow
ToggleDeleted(flag) == FlagXor(flag, DeletedRow)

set_del_flag(df, nrs, urs, pre, R) ==
    LET new_idxes == {r \in R : IsNewIndex(df, r)}
        other_idxes == {r \in R \ new_idxes : r \in Positions(df)}
        raised == new_idxes # {} /\ DropRaises(df, new_idxes)
        df1 == IF new_idxes # {} THEN drop_rows(df, new_idxes) ELSE df
        toggled == {r \in other_idxes : r < Len(df1)}
        df2 == [i \in DOMAIN df1 |->
                  IF (i - 1) \in toggled
                  THEN [df1[i] EXCEPT !.flag = ToggleDeleted(@)]
                  ELSE df1[i]]
        nowDel == {r \in toggled : HasFlag(At(df2, r).flag, DeletedRow)}
        nowUndel == toggled \ nowDel
        undelIds == {At(df2, r).id : r \in nowUndel}
        delIds == {At(df2, r).id : r \in nowDel}
        flagOf(i) == At(df1, CHOOSE r \in nowDel : At(df1, r).id = i).flag
    IN IF raised
       THEN [df |-> df, nrs |-> nrs, urs |-> urs, pre |-> pre, raised |-> TRUE]
       ELSE [df |-> df2,
             nrs |-> nrs \ new_idxes,
             urs |-> (urs \cup nowDel) \ nowUndel,
             pre |-> [i \in ((DOMAIN pre) \ undelIds) \cup delIds |->
                        IF i \in delIds THEN flagOf(i) ELSE pre[i]],
             raised |-> FALSE]

\* InventoryTableWidget.delete_rows on the selected rows
delete_rows ==
    /\ UiReady
    /\ edit_mode
    /\ \E R \in (SUBSET Positions(model_df)) \ {{}} :
        LET res == set_del_flag(model_df, new_rows_set, uneditable_rows_set, pre_del, R)
        IN /\ model_df' = res.df
           /\ new_rows_set' = res.nrs
           /\ uneditable_rows_set' = res.urs
           /\ pre_del' = res.pre
           /\ last' = Did("delete_rows", R, res.raised)
    /\ UNCHANGED <<lab_df, db, db_seq, is_editable, edit_mode, msg, exited>>

\* QAbstractTableModel.index(row, 0).row(): -1 when the row is out of range
IndexRow(df, row) == IF row \in Positions(df) THEN row ELSE -1

\* DataModel.del_new_rows: the index LABELS of the New rows are turned into
\* model indexes and handed to set_del_flag
DelNewRowsIndexes(df) == {IndexRow(df, r.label) : r \in {df[i] : i \in
                             {j \in DOMAIN df : HasFlag(df[j].flag, NewRow)}}}

\* InventoryTableWidget.filter_for_selected_upper_id / filter_for_search_all:
\* the user leaves the current selection and unsaved New rows are dropped
filter_for_selected_upper_id ==
    /\ UiReady
    /\ LET R == DelNewRowsIndexes(model_df)
           res == set_del_flag(model_df, new_rows_set, uneditable_rows_set, pre_del, R)
       IN IF R = {}
          THEN /\ UNCHANGED <<model_df, new_rows_set, uneditable_rows_set, pre_del>>
               /\ last' = Did("filter", {}, FALSE)
          ELSE /\ model_df' = res.df
               /\ new_rows_set' = res.nrs
               /\ uneditable_rows_set' = res.urs
               /\ pre_del' = res.pre
               /\ last' = Did("filter", R, res.raised)
    /\ UNCHANGED <<lab_df, db, db_seq, is_editable, edit_mode, msg, exited>>

(***************************************************************************)
(* InventoryWindow.do_db_work                                              *)
(***************************************************************************)
\* DataModel.update: Lab().update_lab_df_from_db fetches the table again;
\* update_model_df_from_db then rebuilds model_df from it
update(d) == GetDfFromDb(d)

\* ItemWidget.save_model_to_db: do_db_work("item_save") saves the model and
\* fetches it again, the result string of the save is shown in a dialog, and
\* the widget leaves edit mode.  The awaits of the task are taken in one
\* step here; how the task is scheduled is the subject of SpecBridge.
save_model_to_db ==
    /\ UiReady
    /\ edit_mode
    /\ \E od \in BatchOutcomes(get_deleted_df(model_df)),
          oi \in BatchOutcomes(get_new_df(model_df)),
          ou \in BatchOutcomes(get_changed_df(model_df)) :
        LET res == save_to_db(model_df, db, db_seq, od, oi, ou)
        IN /\ db_seq + res.ninsert - 1 <= MaxId
           /\ db' = res.db
           /\ db_seq' = res.seq
           /\ lab_df' = update(res.db)
           /\ model_df' = SetModelDf(lab_df')
           /\ msg' = [shown |-> TRUE, ops |-> res.ops, results |-> res.results,
                      staged |-> Staged(model_df)]
    \* clear_uneditable_rows, clear_new_rows
    /\ new_rows_set' = {}
    /\ uneditable_rows_set' = {}
    /\ pre_del' = EmptyFn
    \* edit_mode.setChecked(False); edit_mode_ends()
    /\ edit_mode' = FALSE
    /\ is_editable' = FALSE
    /\ last' = Did("save_model_to_db", {}, FALSE)
    /\ UNCHANGED exited

\* ItemWidget.update_all_views: do_db_work("all_update") fetches the table
\* again; nothing is saved and no dialog is shown
update_all ==
    /\ UiReady
    /\ lab_df' = update(db)
    /\ model_df' = SetModelDf(lab_df')
    /\ pre_del' = EmptyFn
    /\ last' = Did("update_all", {}, FALSE)
    /\ UNCHANGED <<db, db_seq, new_rows_set, uneditable_rows_set, is_editable,
                   edit_mode, msg, exited>>

\* the user closes the result dialog (QMessageBox.information returns)
close_message ==
    /\ ~exited
    /\ msg.shown
    /\ msg' = NoMsg
    /\ last' = Did("close_message", {}, FALSE)
    /\ UNCHANGED <<model_df, lab_df, db, db_seq, new_rows_set,
                   uneditable_rows_set, is_editable, edit_mode, pre_del, exited>>

(***************************************************************************)
(* AsyncHelper: the asyncio loop runs as a guest of the Qt event loop.     *)
(* loop.run_forever() runs iterations until loop.stop() was called in one: *)
(* an iteration waits for I/O only when no callback is ready, queues the   *)
(* callbacks of the I/O that has arrived, then runs the callbacks that     *)
(* were ready when it began to run them.                                   *)
(***************************************************************************)
Actions == {"item_save", "all_update"}

\* do_db_work shows the result string of a save in a QMessageBox
ShowsResult(a) == a = "item_save"

\* callbacks of the asyncio loop: next_guest_run_schedule(action), the step
\* of a task, and the reader callback of a database call that has returned
Callback(k, a, t) == [k |-> k, a |-> a, t |-> t]
next_guest_run_schedule(a) == Callback("ngrs", a, 0)
TaskStep(t) == Callback("step", tasks[t].action, t)
IoReady(t) == Callback("io", tasks[t].action, t)

TaskIds == DOMAIN tasks
Hung == \E t \in TaskIds : tasks[t].st = "hung"

InitBridge ==
    /\ phase = "idle"
    /\ stopping = FALSE
    /\ ready = <<>>
    /\ todo = 0
    /\ qt = <<>>
    /\ tasks = <<>>
    /\ done = [a \in {} |-> FALSE]
    /\ msgbox = 0
    /\ run_posts = 0
    /\ run_iters = 0
    /\ bstep = "init"

\* loop.run_forever() is entered
RunForever ==
    /\ phase' = "select"
    /\ run_posts' = 0
    /\ run_iters' = 0

\* on_worker_started: the callbacks it schedules for task t of action a
on_worker_started_ready(rdy, a, t) ==
    rdy \o <<Callback("step", a, t), next_guest_run_schedule(a)>>

\* AsyncHelper.on_worker_started(action): a handler of the Qt loop
on_worker_started ==
    /\ phase = "idle"
    /\ Len(tasks) < MaxTasks
    /\ \E a \in Actions :
        LET t == Len(tasks) + 1
        IN /\ tasks' = Append(tasks, [action |-> a, left |-> MaxAwaits, st |-> "ready"])
           /\ ready' = on_worker_started_ready(ready, a, t)
           /\ done' = [x \in (DOMAIN done) \cup {a} |-> IF x = a THEN FALSE ELSE done[x]]
    /\ RunForever
    /\ bstep' = "on_worker_started"
    /\ UNCHANGED <<stopping, todo, qt, msgbox>>

\* variant: the guest run is continued without scheduling its next stop
continue_loop_unscheduled(rdy, a) == rdy

\* continue_loop: loop.call_soon(lambda: self.next_guest_run_schedule(action))
continue_loop_ready(rdy, a) == Append(rdy, next_guest_run_schedule(a))

\* variant: the guest run is continued whatever AsyncHelper.done says
KeepsRunningAlways(dn, a) == TRUE

\* continue_loop: if not self.done[action]
KeepsRunning(dn, a) == ~dn[a]

\* AsyncHelper.continue_loop(action), called for the ReenterQtEvent at the
\* head of the Qt queue.  Qt delivers posted events from its top-level loop
\* (the asyncio loop is not running) and from the loop a QMessageBox runs.
continue_loop ==
    /\ qt # <<>>
    /\ phase = "idle" \/ msgbox # 0
    /\ LET a == Head(qt)
       IN /\ qt' = Tail(qt)
          /\ IF KeepsRunning(done, a)
             THEN /\ ready' = continue_loop_ready(ready, a)
                  /\ IF phase = "idle"
                     THEN RunForever
                     ELSE UNCHANGED <<phase, run_posts, run_iters>>
             ELSE UNCHANGED <<ready, phase, run_posts, run_iters>>
    /\ bstep' = "continue_loop"
    /\ UNCHANGED <<stopping, todo, tasks, done, msgbox>>

\* the database calls that have returned, in task order
Returned == SelectSeq([t \in TaskIds |-> t], LAMBDA t : tasks[t].st = "returned")

\* the select of one iteration: it returns at once when a callback is ready
\* or the loop is stopping, otherwise when I/O arrives
run_once_select ==
    /\ phase = "select"
    /\ ready # <<>> \/ stopping \/ Returned # <<>>
    /\ ready' = ready \o [i \in DOMAIN Returned |-> IoReady(Returned[i])]
    /\ tasks' = [t \in TaskIds |->
                    IF tasks[t].st = "returned"
                    THEN [tasks[t] EXCEPT !.st = "io"] ELSE tasks[t]]
    /\ todo' = Len(ready')
    /\ phase' = "run"
    /\ run_iters' = run_iters + 1
    /\ bstep' = "select"
    /\ UNCHANGED <<stopping, qt, done, msgbox, run_posts>>

\* a step of the task of do_db_work: up to its next database call, or to
\* its end (done_signal.emit(action), then the result dialog of a save)
StepTask(tk) ==
    IF tk.left > 0
    THEN [tk EXCEPT !.left = @ - 1, !.st = "waiting"]
    ELSE [tk EXCEPT !.st = IF ShowsResult(tk.action) THEN "dialog" ELSE "finished"]

\* one callback of the current iteration runs
run_callback ==
    /\ phase = "run"
    /\ todo > 0
    /\ msgbox = 0
    /\ LET cb == Head(ready)
           rest == Tail(ready)
       IN /\ todo' = todo - 1
          /\ bstep' = cb.k
          /\ IF cb.k = "ngrs"
             THEN \* next_guest_run_schedule: loop.stop(), postEvent
                  /\ stopping' = TRUE
                  /\ qt' = Append(qt, cb.a)
                  /\ run_posts' = run_posts + 1
                  /\ ready' = rest
                  /\ UNCHANGED <<tasks, done, msgbox>>
             ELSE IF cb.k = "io"
             THEN \* the awaited future is resolved: the task is woken with call_soon
                  /\ tasks' = [tasks EXCEPT ![cb.t].st = "ready"]
                  /\ ready' = Append(rest, TaskStep(cb.t))
                  /\ UNCHANGED <<stopping, qt, run_posts, done, msgbox>>
             ELSE /\ tasks' = [tasks EXCEPT ![cb.t] = StepTask(@)]
                  /\ ready' = rest
                  /\ done' = IF tasks'[cb.t].st = "waiting"
                             THEN done ELSE [done EXCEPT ![cb.a] = TRUE]
                  /\ msgbox' = IF tasks'[cb.t].st = "dialog" THEN cb.t ELSE 0
                  /\ UNCHANGED <<stopping, qt, run_posts>>
    /\ UNCHANGED <<phase, run_iters>>

\* the user closes the result dialog: QMessageBox.information returns and
\* the task ends
close_dialog ==
    /\ msgbox # 0
    /\ tasks' = [tasks EXCEPT ![msgbox].st = "finished"]
    /\ msgbox' = 0
    /\ bstep' = "close_dialog"
    /\ UNCHANGED <<phase, stopping, ready, todo, qt, done, run_posts, run_iters>>

\* the iteration is over: run_forever returns if loop.stop() was called
end_iteration ==
    /\ phase = "run"
    /\ todo = 0
    /\ msgbox = 0
    /\ IF stopping
       THEN phase' = "idle" /\ stopping' = FALSE
       ELSE phase' = "select" /\ UNCHANGED stopping
    /\ bstep' = "end_iteration"
    /\ UNCHANGED <<ready, todo, qt, tasks, done, msgbox, run_posts, run_iters>>

\* the database answers a call, or the call hangs for good
db_call_returns ==
    /\ \E t \in TaskIds :
        /\ tasks[t].st = "waiting"
        /\ tasks' = [tasks EXCEPT ![t].st = "returned"]
    /\ bstep' = "db_call_returns"
    /\ UNCHANGED <<phase, stopping, ready, todo, qt, done, msgbox, run_posts, run_iters>>

db_call_hangs ==
    /\ \E t \in TaskIds :
        /\ tasks[t].st = "waiting"
        /\ tasks' = [tasks EXCEPT ![t].st = "hung"]
    /\ bstep' = "db_call_hangs"
    /\ UNCHANGED <<phase, stopping, ready, todo, qt, done, msgbox, run_posts, run_iters>>

(***************************************************************************)
(* BaseDBModel.session / DbUtil.session: the context manager around one    *)
(* ORM session.  The body works on the session's view of the rows; commit  *)
(* makes it the stored rows, rollback and close discard it.                *)
(***************************************************************************)
Keys == 1 .. MaxKey
NoEnd == [body |-> "none", commit |-> "none", rollback |-> FALSE,
          raised |-> "none", before |-> {}, wrote |-> {}]

InitSession ==
    /\ store \in SUBSET Keys
    /\ work = store
    /\ pc = "idle"
    /\ exc = "none"
    /\ ended = NoEnd

\* session = self.async_session(); the body starts at the yield
session_enter ==
    /\ pc = "idle"
    /\ pc' = "body"
    /\ work' = store
    /\ exc' = "none"
    /\ ended' = [NoEnd EXCEPT !.before = store]
    /\ UNCHANGED store

\* the body adds or deletes a row through the session
body_writes ==
    /\ pc = "body"
    /\ \E k \in Keys : work' = IF k \in work THEN work \ {k} ELSE work \cup {k}
    /\ UNCHANGED <<store, pc, exc, ended>>

\* the body completes: the context manager goes on after the yield
body_returns ==
    /\ pc = "body"
    /\ pc' = "commit"
    /\ ended' = [ended EXCEPT !.body = "ok", !.wrote = work]
    /\ UNCHANGED <<store, work, exc>>

\* except Exception: the clause catches an Exception, not a bare
\* BaseException such as asyncio.CancelledError
Caught(e) == e = "Exception"

\* the body raises: the exception is thrown into the generator at the yield
body_raises ==
    /\ pc = "body"
    /\ \E e \in {"Exception", "CancelledError"} :
        /\ exc' = e
        /\ pc' = IF Caught(e) THEN "rollback" ELSE "close"
    /\ ended' = [ended EXCEPT !.body = "raised", !.wrote = work]
    /\ UNCHANGED <<store, work>>

\* variant: a failed commit leaves the rows it had flushed
CommitWritesAnyway(st, w, ok) == w

\* await session.commit(): the rows stored afterwards
Commit(st, w, ok) == IF ok THEN w ELSE st

\* await session.commit() succeeds, or raises (a constraint violated at the
\* flush, a lost connection)
session_commit ==
    /\ pc = "commit"
    /\ \E ok \in BOOLEAN :
        /\ store' = Commit(store, work, ok)
        /\ IF ok
           THEN /\ pc' = "close"
                /\ UNCHANGED exc
                /\ ended' = [ended EXCEPT !.commit = "ok"]
           ELSE /\ pc' = "rollback"
                /\ exc' = "Exception"
                /\ ended' = [ended EXCEPT !.commit = "failed"]
    /\ UNCHANGED work

\* await session.rollback() in the except clause; the exception is raised
\* again after the finally clause
session_rollback ==
    /\ pc = "rollback"
    /\ work' = store
    /\ pc' = "close"
    /\ ended' = [ended EXCEPT !.rollback = TRUE]
    /\ UNCHANGED <<store, exc>>

\* finally: await session.close(); what was not committed is discarded and
\* the exception in flight, if any, reaches the caller
session_close ==
    /\ pc = "close"
    /\ work' = store
    /\ pc' = "idle"
    /\ ended' = [ended EXCEPT !.raised = exc]
    /\ exc' = "none"
    /\ UNCHANGED store

(***************************************************************************)
(* SkuModel and TrModel: the SKU table of the selected item and the        *)
(* transaction table of the selected SKU.  A SKU row is                    *)
(* [sku_id, item_id, root_sku, sku_qty, active, flag], a transaction row   *)
(* [tr_id, sku_id, tr_type, tr_qty, before_qty, after_qty, flag].          *)
(***************************************************************************)
ItemIds == 1 .. MaxItems
Quantities == 0 .. MaxQty

\* TransactionType.BUY, SELL, ADJUSTMENT_PLUS, ADJUSTMENT_MINUS
BUY == 1
SELL == 2
ADJUSTMENT_PLUS == 3
ADJUSTMENT_MINUS == 4

\* the names the table model uses for the types, and Lab().tr_type_id_s
TrTypes == {"Buy", "Sell", "AdjustmentPlus", "AdjustmentMinus"}
TrTypeId(tr_type) ==
    CASE tr_type = "Buy" -> BUY
      [] tr_type = "Sell" -> SELL
      [] tr_type = "AdjustmentPlus" -> ADJUSTMENT_PLUS
      [] tr_type = "AdjustmentMinus" -> ADJUSTMENT_MINUS

NoOp == [op |-> "init", err |-> "none", ok |-> TRUE, row |-> 0, arg |-> 0,
         tr_type |-> "none", tr_qty |-> 0, before_qty |-> 0]

InitStock ==
    /\ item_active \in [ItemIds -> BOOLEAN]
    /\ \E n \in 0 .. MaxSkus - 1 :
          \E its \in [1 .. n -> ItemIds], act \in [1 .. n -> BOOLEAN],
             q \in [1 .. n -> {0, MaxQty}] :
              sku_lab = [i \in 1 .. n |->
                           [sku_id |-> i, item_id |-> its[i], root_sku |-> 0,
                            sku_qty |-> q[i], active |-> act[i],
                            flag |-> OriginalRow]]
    /\ sku_df = sku_lab
    /\ sku_upper_id = 0
    /\ tr_df = <<>>
    /\ tr_db = <<>>
    /\ tr_upper_id = 0
    /\ tr_window = FALSE
    /\ slast = NoOp

SkuIds(df) == {df[i].sku_id : i \in DOMAIN df}
SkuOf(df, id) == df[CHOOSE i \in DOMAIN df : df[i].sku_id = id]

\* next_new_id of DataModel.append_new_row
NextNewId(ids) == IF ids = {} THEN 1 ELSE MaxOf(ids) + 1

\* DataModel.del_new_rows on a table whose New rows are its last rows and
\* carry their positions as labels: the New rows are dropped
del_new_rows(df) == SelectSeq(df, LAMBDA r : ~HasFlag(r.flag, NewRow))

\* InventoryTableWidget.filter_for_selected_upper_id / filter_for_search_all
\* on the SKU table: an item is selected (double click in the item view) or
\* search-all is pressed; the unsaved New rows are dropped
sku_set_upper_model_id ==
    /\ \E i \in {0} \cup ItemIds :
          /\ i # sku_upper_id
          /\ sku_upper_id' = i
          /\ slast' = [NoOp EXCEPT !.op = "sku_set_upper_model_id", !.arg = i]
    /\ sku_df' = del_new_rows(sku_df)
    /\ UNCHANGED <<item_active, sku_lab, tr_df, tr_db, tr_upper_id, tr_window>>

\* SkuModel.make_a_new_row_df: the error it raises, or "none"
SkuNewRowError(upper, act) ==
    IF upper = 0 THEN "NonExistentItemIdError"
    ELSE IF ~act[upper] THEN "InactiveItemIdError"
    ELSE "none"

sku_make_a_new_row_df(next_new_id, upper) ==
    [sku_id |-> next_new_id, item_id |-> upper, root_sku |-> 0, sku_qty |-> 0,
     active |-> TRUE, flag |-> NewRow]

\* InventoryTableWidget.add_new_row -> DataModel.append_new_row on the SKU
\* table; the exception of make_a_new_row_df is shown in a message box
sku_append_new_row ==
    /\ Len(sku_df) < MaxSkus
    /\ LET err == SkuNewRowError(sku_upper_id, item_active)
       IN /\ sku_df' = IF err = "none"
                       THEN Append(sku_df, sku_make_a_new_row_df(
                                       NextNewId(SkuIds(sku_df)), sku_upper_id))
                       ELSE sku_df
          /\ slast' = [NoOp EXCEPT !.op = "sku_append_new_row", !.err = err,
                                   !.ok = (err = "none")]
    /\ UNCHANGED <<item_active, sku_lab, sku_upper_id, tr_df, tr_db, tr_upper_id, tr_window>>

\* variant: only the existence of the root is looked at
RootSkuAcceptedAnyItem(df, p, value) == value \in SkuIds(df)

\* SkuModel.setData, column root_sku: the value is the sku_id of a row of
\* the model and that row has the item_id of the edited row
RootSkuAccepted(df, p, value) ==
    /\ value \in SkuIds(df)
    /\ SkuOf(df, value).item_id = At(df, p).item_id

\* DataModel.setData after the column's own check: a Deleted row is left
\* alone; the value is stored and, unless the row is New, the Changed bit
\* is set when the row differs from the fetched row
SkuStore(df, lab, p, value) ==
    LET stored == [df EXCEPT ![p + 1].root_sku = value]
        row == At(stored, p)
    IN IF SetDataRefused(At(df, p).flag) THEN df
       ELSE IF SetDataSkipsChgFlag(row.flag) THEN stored
       ELSE IF [row EXCEPT !.flag = OriginalRow] # At(lab, p)
       THEN [stored EXCEPT ![p + 1].flag = FlagOr(@, ChangedRow)]
       ELSE stored

\* SkuModel.setData on a root_sku cell of the SKU table (the cells of the
\* other columns go to DataModel.setData unchecked)
sku_setData ==
    /\ \E p \in Positions(sku_df), value \in 0 .. MaxSkus + 1 :
          LET accepted == RootSkuAccepted(sku_df, p, value)
          IN /\ sku_df' = IF accepted THEN SkuStore(sku_df, sku_lab, p, value)
                          ELSE sku_df
             /\ slast' = [NoOp EXCEPT !.op = "sku_setData", !.ok = accepted,
                                      !.row = p, !.arg = value]
    /\ UNCHANGED <<item_active, sku_lab, sku_upper_id, tr_df, tr_db, tr_upper_id, tr_window>>

RECURSIVE SumQty(_)
SumQty(rows) == IF rows = <<>> THEN 0 ELSE Head(rows).sku_qty + SumQty(Tail(rows))

\* variant: a SKU without sub SKUs must have no stock
is_sku_qty_correct_strict(df, sku_id, sku_qty) ==
    sku_qty = SumQty(SelectSeq(df, LAMBDA r : r.root_sku = sku_id))

\* SkuModel.is_sku_qty_correct
is_sku_qty_correct(df, sku_id, sku_qty) ==
    LET sku_grp == SelectSeq(df, LAMBDA r : r.root_sku = sku_id)
    IN IF sku_grp = <<>> THEN TRUE
       ELSE sku_qty = SumQty(sku_grp)

\* a call of is_sku_qty_correct: by SkuModel.cell_color with the id and the
\* quantity of a row, or with any id and quantity
is_sku_qty_correct_called ==
    /\ \E sku_id \in 0 .. MaxSkus, sku_qty \in 0 .. MaxSkus * MaxQty :
          slast' = [NoOp EXCEPT !.op = "is_sku_qty_correct", !.row = sku_id,
                       !.arg = sku_qty,
                       !.ok = is_sku_qty_correct(sku_df, sku_id, sku_qty)]
    /\ UNCHANGED <<item_active, sku_lab, sku_df, sku_upper_id, tr_df, tr_db,
                   tr_upper_id, tr_window>>

\* SkuModel.is_active_row(sku_id): the SKU and its item are active
sku_is_active_row(df, act, id) == act[SkuOf(df, id).item_id] /\ SkuOf(df, id).active

RECURSIVE Reverse(_)
Reverse(s) == IF s = <<>> THEN <<>> ELSE Append(Reverse(Tail(s)), Head(s))

\* Lab._get_df_from_db for the transactions: the stored transactions of the
\* SKU (of every SKU when none is selected), ORDER BY tr_id DESC, flagged
\* Original by set_add_on_cols
TrFetch(stored, upper) ==
    LET rows == Reverse(SelectSeq(stored, LAMBDA r : upper = 0 \/ r.sku_id = upper))
    IN [i \in DOMAIN rows |->
          [tr_id |-> rows[i].tr_id, sku_id |-> rows[i].sku_id,
           tr_type |-> rows[i].tr_type, tr_qty |-> rows[i].tr_qty,
           before_qty |-> rows[i].before_qty, after_qty |-> rows[i].after_qty,
           flag |-> OriginalRow]]

\* TrWidget.filter_for_selected_upper_id / filter_for_search_all: a SKU of
\* the SKU view is selected (double click) or search-all is pressed; the
\* unsaved New rows are dropped and the table is fetched again (tr_update)
tr_set_upper_model_id ==
    /\ ~tr_window
    /\ \E s \in {0} \cup SkuIds(sku_df) :
          /\ s # tr_upper_id
          /\ tr_upper_id' = s
          /\ tr_df' = TrFetch(tr_db, s)
          /\ slast' = [NoOp EXCEPT !.op = "tr_set_upper_model_id", !.arg = s]
    /\ UNCHANGED <<item_active, sku_lab, sku_df, sku_upper_id, tr_db, tr_window>>

\* variant: a SKU that is not in the SKU table is not noticed
TrNewRowErrorKnownSku(upper, skus, act, has_tr_type) ==
    IF upper = 0 THEN "NonExistentSkuIdError"
    ELSE IF ~has_tr_type THEN "InvalidTrTypeError"
    ELSE "none"

\* TrModel.make_a_new_row_df: the error it raises, or "none"
TrNewRowError(upper, skus, act, has_tr_type) ==
    IF upper = 0 THEN "NonExistentSkuIdError"
    ELSE IF upper \notin SkuIds(skus) THEN "NonExistentSkuIdError"
    ELSE IF ~sku_is_active_row(skus, act, upper) THEN "InactiveSkuIdError"
    ELSE IF ~has_tr_type THEN "InvalidTrTypeError"
    ELSE "none"

\* last_qty: after_qty of the newest transaction of the SKU in the model,
\* or the sku_qty of the SKU when it has none
LastQty(trs, skus, upper) ==
    LET mine == {i \in DOMAIN trs : trs[i].sku_id = upper}
    IN IF mine # {}
       THEN trs[CHOOSE i \in mine : \A j \in mine : trs[j].tr_id <= trs[i].tr_id].after_qty
       ELSE SkuOf(skus, upper).sku_qty

tr_make_a_new_row_df(next_new_id, upper, tr_type, last_qty) ==
    [tr_id |-> next_new_id, sku_id |-> upper, tr_type |-> tr_type, tr_qty |-> 1,
     before_qty |-> last_qty, after_qty |-> last_qty, flag |-> NewRow]

\* TrWidget.add_new_row(tr_type=...) -> DataModel.append_new_row; on
\* success a SingleTrWindow is opened on the new row
tr_append_new_row ==
    /\ ~tr_window
    /\ Len(tr_db) + Len(get_new_df(tr_df)) < MaxTr
    /\ \E has_tr_type \in BOOLEAN, tr_type \in TrTypes :
        LET err == TrNewRowError(tr_upper_id, sku_df, item_active, has_tr_type)
        IN /\ tr_df' = IF err = "none"
                       THEN Append(tr_df, tr_make_a_new_row_df(
                               NextNewId({tr_df[i].tr_id : i \in DOMAIN tr_df}),
                               tr_upper_id, tr_type,
                               LastQty(tr_df, sku_df, tr_upper_id)))
                       ELSE tr_df
           /\ tr_window' = (err = "none")
           /\ slast' = [NoOp EXCEPT !.op = "tr_append_new_row", !.err = err,
                                    !.ok = (err = "none"),
                                    !.tr_type = IF has_tr_type THEN tr_type ELSE "none"]
    /\ UNCHANGED <<item_active, sku_lab, sku_df, sku_upper_id, tr_db, tr_upper_id>>

\* variant: a sale beyond the stock is let through
validate_new_row_any_stock(tr_type, tr_qty, before_qty) == tr_qty > 0

\* TrModel.validate_new_row: the result
validate_new_row(tr_type, tr_qty, before_qty) ==
    IF tr_qty <= 0 THEN FALSE
    ELSE IF tr_type \in {"Sell", "AdjustmentMinus"} THEN ~(tr_qty > before_qty)
    ELSE TRUE

\* TrModel.plus_qty_to_models: the after_qty validate_new_row stores
plus_qty_to_models(tr_type, before_qty, tr_qty) ==
    IF tr_type \in {"Buy", "AdjustmentPlus"} THEN before_qty + tr_qty
    ELSE before_qty - tr_qty

\* SingleTrWindow.ok_clicked: the quantity of the spin box is submitted to
\* the row, then TrWidget.added_new_tr_by_single_tr_window validates the
\* row, stores its after_qty, and drops the row when it is not valid
ok_clicked ==
    /\ tr_window
    /\ \E q \in Quantities :
        LET p == Len(tr_df)
            row == tr_df[p]
            valid == validate_new_row(row.tr_type, q, row.before_qty)
        IN /\ tr_df' = IF valid
                       THEN [tr_df EXCEPT ![p].tr_qty = q,
                                ![p].after_qty =
                                    plus_qty_to_models(row.tr_type, row.before_qty, q)]
                       ELSE SubSeq(tr_df, 1, p - 1)
           /\ slast' = [NoOp EXCEPT !.op = "ok_clicked", !.ok = valid,
                                    !.tr_type = row.tr_type, !.tr_qty = q,
                                    !.before_qty = row.before_qty]
    /\ tr_window' = FALSE
    /\ UNCHANGED <<item_active, sku_lab, sku_df, sku_upper_id, tr_db, tr_upper_id>>

\* SingleTrWindow.exit_clicked: the window is closed, nothing is emitted
exit_clicked ==
    /\ tr_window
    /\ tr_window' = FALSE
    /\ slast' = [NoOp EXCEPT !.op = "exit_clicked"]
    /\ UNCHANGED <<item_active, sku_lab, sku_df, sku_upper_id, tr_df, tr_db, tr_upper_id>>

\* a variant that takes the oldest of the New transactions of a SKU
update_sku_qty_oldest(skus, trs) ==
    LET new_tr_df == get_new_df(trs)
        oldest(id) ==
            LET mine == {i \in DOMAIN new_tr_df : new_tr_df[i].sku_id = id}
            IN new_tr_df[CHOOSE i \in mine :
                            \A j \in mine : new_tr_df[i].tr_id <= new_tr_df[j].tr_id]
    IN [i \in DOMAIN skus |->
          IF \E j \in DOMAIN new_tr_df : new_tr_df[j].sku_id = skus[i].sku_id
          THEN [skus[i] EXCEPT !.sku_qty = oldest(skus[i].sku_id).after_qty]
          ELSE skus[i]]

\* TrModel.update_sku_qty: the sku_qty of every SKU with New transactions
\* becomes the after_qty of the newest of them
update_sku_qty(skus, trs) ==
    LET new_tr_df == get_new_df(trs)
        newest(id) ==
            LET mine == {i \in DOMAIN new_tr_df : new_tr_df[i].sku_id = id}
            IN new_tr_df[CHOOSE i \in mine :
                            \A j \in mine : new_tr_df[j].tr_id <= new_tr_df[i].tr_id]
    IN [i \in DOMAIN skus |->
          IF \E j \in DOMAIN new_tr_df : new_tr_df[j].sku_id = skus[i].sku_id
          THEN [skus[i] EXCEPT !.sku_qty = newest(skus[i].sku_id).after_qty]
          ELSE skus[i]]

\* the New transactions as the database stores them: the id is assigned by
\* the database (DEFAULT)
TrInserted(stored, trs) ==
    LET new_tr_df == get_new_df(trs)
    IN stored \o [i \in DOMAIN new_tr_df |->
                    [tr_id |-> Len(stored) + i, sku_id |-> new_tr_df[i].sku_id,
                     tr_type |-> new_tr_df[i].tr_type, tr_qty |-> new_tr_df[i].tr_qty,
                     before_qty |-> new_tr_df[i].before_qty,
                     after_qty |-> new_tr_df[i].after_qty]]

\* TrWidget.save_model_to_db: update_sku_qty, then do_db_work("tr_save")
\* saves the SKU table and the transaction table and fetches both again.
\* The statements are taken to succeed and inactive records to be shown.
\* update_sku_qty_after_transaction raises IndexError, and nothing is
\* saved, when the SKU of a New transaction is not in the SKU table.
tr_save ==
    /\ ~tr_window
    /\ get_new_df(tr_df) # <<>>
    /\ LET new_tr_df == get_new_df(tr_df)
           raised == \E i \in DOMAIN new_tr_df : new_tr_df[i].sku_id \notin SkuIds(sku_df)
           saved == [i \in DOMAIN sku_df |->
                       [update_sku_qty(sku_df, tr_df)[i] EXCEPT !.flag = OriginalRow]]
       IN IF raised
          THEN /\ UNCHANGED <<sku_lab, sku_df, tr_df, tr_db>>
               /\ slast' = [NoOp EXCEPT !.op = "tr_save", !.err = "IndexError",
                                        !.ok = FALSE]
          ELSE /\ sku_lab' = saved
               /\ sku_df' = saved
               /\ tr_db' = TrInserted(tr_db, tr_df)
               /\ tr_df' = TrFetch(tr_db', tr_upper_id)
               /\ slast' = [NoOp EXCEPT !.op = "tr_save"]
    /\ UNCHANGED <<item_active, sku_upper_id, tr_upper_id, tr_window>>

\* TransactionModel.validate_transaction
validate_transaction(tr_type_id, tr_qty) ==
    IF tr_qty = 0 THEN FALSE
    ELSE IF tr_type_id \in {BUY, ADJUSTMENT_PLUS} /\ tr_qty < 0 THEN FALSE
    ELSE IF tr_type_id \in {SELL, ADJUSTMENT_MINUS} /\ tr_qty > 0 THEN FALSE
    ELSE TRUE

NoResult == [by |-> "none", ok |-> FALSE]

\* the transactions handed to the validators: type id 0 is the type of
\* create_empty_transaction, no type of the table
InitValidate ==
    /\ vin \in [tr_type_id : 0 .. ADJUSTMENT_MINUS,
                tr_qty : (0 - MaxQty - 1) .. (MaxQty + 1),
                before_qty : 0 .. MaxQty,
                after_qty : 0 .. (2 * MaxQty + 1)]
    /\ vout = NoResult

TrTypeName(tr_type_id) == CHOOSE n \in TrTypes : TrTypeId(n) = tr_type_id

\* a call of TransactionModel.validate_transaction
validate_transaction_called ==
    /\ vout' = [by |-> "validate_transaction",
                ok |-> validate_transaction(vin.tr_type_id, vin.tr_qty)]
    /\ UNCHANGED vin

\* a call of TrModel.validate_new_row on a row of one of the four types
validate_new_row_called ==
    /\ vin.tr_type_id \in {BUY, SELL, ADJUSTMENT_PLUS, ADJUSTMENT_MINUS}
    /\ vout' = [by |-> "validate_new_row",
                ok |-> validate_new_row(TrTypeName(vin.tr_type_id), vin.tr_qty,
                                        vin.before_qty)]
    /\ UNCHANGED vin

\* Transaction.validate_quantities
validate_quantities(tr_type_id, tr_qty, before_qty, after_qty) ==
    IF tr_type_id = BUY \/ tr_type_id = ADJUSTMENT_PLUS
    THEN after_qty = before_qty + tr_qty
    ELSE IF tr_type_id = SELL \/ tr_type_id = ADJUSTMENT_MINUS
    THEN after_qty = before_qty - tr_qty
    ELSE FALSE

\* a call of Transaction.validate_quantities
validate_quantities_called ==
    /\ vout' = [by |-> "validate_quantities",
                ok |-> validate_quantities(vin.tr_type_id, vin.tr_qty,
                                           vin.before_qty, vin.after_qty)]
    /\ UNCHANGED vin

\* TrModel._update_quantities: the after_qty of a row whose before_qty is
\* the sku_qty of its SKU
update_quantities(tr_type_id, tr_qty, before_qty) ==
    IF tr_type_id \in {BUY, ADJUSTMENT_PLUS}
    THEN before_qty + tr_qty
    ELSE before_qty - tr_qty

\* TrModel.setData on the tr_qty column of a row of one of the four types:
\* the quantities of the row are computed again, no validator has seen them
update_quantities_called ==
    /\ vin.tr_type_id \in {BUY, SELL, ADJUSTMENT_PLUS, ADJUSTMENT_MINUS}
    /\ vin' = [vin EXCEPT !.after_qty =
                  update_quantities(vin.tr_type_id, vin.tr_qty, vin.before_qty)]
    /\ vout' = [by |-> "_update_quantities", ok |-> TRUE]

(***************************************************************************)
(* The paged TransactionModel: load_data fetches the first page, load_more *)
(* the next ones.  The stored transactions the query matches are the       *)
(* tr_ids 1 .. n_stored and do not change while the model pages.           *)
(***************************************************************************)
Backends == {"sqlite", "postgresql"}

NoCall == [op |-> "none", ok |-> FALSE, raised |-> FALSE, got |-> 0]

InitPage ==
    /\ backend \in Backends
    /\ n_stored \in 0 .. MaxStored
    /\ max_transaction_count \in 1 .. MaxCount
    /\ page_data = <<>>
    /\ current_page = 0
    /\ total_records = 0
    /\ plast = NoCall

Min(a, b) == IF a < b THEN a ELSE b

\* ORDER BY tr_id DESC OFFSET off LIMIT lim over the stored transactions;
\* a limit of 0 gives no row, a negative limit (lim = -1) no upper bound
Query(n, off, lim) ==
    LET avail == IF n > off THEN n - off ELSE 0
        cnt == IF lim < 0 THEN avail ELSE Min(lim, avail)
    IN [k \in 1 .. cnt |-> n - off - k + 1]

\* TransactionModel.get_page: the LIMIT of the query
max_count(page, max_transaction_cnt) ==
    LET accumulated_count == page * PAGE_SIZE
        remaining_count == max_transaction_cnt - accumulated_count
    IN Min(remaining_count, PAGE_SIZE)

\* TransactionModel.get_page: the rows, when the query returns
get_page(page, lim) == Query(n_stored, page * PAGE_SIZE, lim)

\* a negative LIMIT is an error on PostgreSQL and no limit on SQLite
LimitRaises(lim) == lim < 0 /\ backend = "postgresql"

\* TransactionModel.get_total_records
get_total_records == n_stored

\* TransactionModel.can_load_more
can_load_more == Len(page_data) < total_records

\* TransactionModel.load_data
load_data ==
    /\ current_page' = 0
    /\ total_records' = get_total_records
    /\ page_data' = get_page(0, max_count(0, max_transaction_count))
    /\ plast' = [NoCall EXCEPT !.op = "load_data", !.ok = TRUE,
                               !.got = Len(page_data')]
    /\ UNCHANGED <<backend, n_stored, max_transaction_count>>

\* TransactionModel.load_more.  A page from MaxPage on lies behind the last
\* stored transaction (MaxPage * PAGE_SIZE > MaxStored) and is empty, so
\* the page number is not counted beyond MaxPage.
load_more ==
    /\ IF Len(page_data) < total_records
       THEN LET lim == max_count(current_page + 1, max_transaction_count)
                new_data == get_page(current_page + 1, lim)
            IN /\ current_page' = Min(current_page + 1, MaxPage)
               /\ IF LimitRaises(lim)
                  THEN /\ page_data' = page_data
                       /\ plast' = [NoCall EXCEPT !.op = "load_more",
                                                  !.raised = TRUE]
                  ELSE /\ page_data' = page_data \o new_data
                       /\ plast' = [NoCall EXCEPT !.op = "load_more",
                                       !.ok = new_data # <<>>,
                                       !.got = Len(new_data)]
       ELSE /\ plast' = [NoCall EXCEPT !.op = "load_more"]
            /\ UNCHANGED <<page_data, current_page>>
    /\ UNCHANGED <<backend, n_stored, total_records, max_transaction_count>>

\* TransactionModel.set_max_transaction_count
set_max_transaction_count ==
    /\ \E count \in 0 .. MaxCount :
          max_transaction_count' =
              IF count > 0 THEN count ELSE max_transaction_count
    /\ plast' = [NoCall EXCEPT !.op = "set_max_transaction_count"]
    /\ UNCHANGED <<backend, n_stored, page_data, current_page, total_records>>

(***************************************************************************)
(* The category, item, SKU and transaction tables behind the create, get   *)
(* and delete functions of the ORM models.  A row is [id, uid, name,       *)
(* parent]: uid numbers the rows of a table in the order of their creation *)
(* and tells a row from a later one with the same id; name is              *)
(* category_name, item_name, sub_name or description; parent is            *)
(* category_id, item_id or sku_id (0 for a category).  category_name and   *)
(* item_name are declared unique.                                          *)
(***************************************************************************)
Names == 1 .. MaxNames

NoCreate == [op |-> "none", table |-> "none", name |-> 0, parent |-> 0,
             id |-> 0, err |-> "none", out |-> {}]

InitCatalog ==
    /\ categories = {}
    /\ items = {}
    /\ sku_tbl = {}
    /\ tr_tbl = {}
    /\ cat_seq = 0
    /\ item_seq = 0
    /\ sku_seq = 0
    /\ tr_seq = 0
    /\ gone = {}
    /\ clast = NoCreate

\* variant: the name column is not unique
UniqueViolatedNever(rows, name) == FALSE

\* UNIQUE on category_name and on item_name: the INSERT of the flush fails
UniqueViolated(rows, name) == \E r \in rows : r.name = name

\* the Integer primary key given by the INSERT: SQLite gives the highest
\* id of the table plus one, PostgreSQL the next value of the sequence
NextId(rows, seq) ==
    IF backend = "sqlite"
    THEN IF rows = {} THEN 1
         ELSE (CHOOSE m \in {r.id : r \in rows} :
                  \A r \in rows : r.id <= m) + 1
    ELSE seq + 1

\* the row that session.add, flush and refresh store and return
StoredRow(rows, seq, name, parent) ==
    [id |-> NextId(rows, seq), uid |-> seq + 1, name |-> name,
     parent |-> parent]

\* what a create function leaves in the history
Created(op, row) ==
    [NoCreate EXCEPT !.op = op, !.name = row.name, !.parent = row.parent,
                     !.id = row.id, !.out = {row}]

\* CategoryModel.create_category inside BaseDBModel.session: add, flush,
\* then commit, or rollback and re-raise when the flush raised
create_category ==
    /\ cat_seq < MaxCreated
    /\ \E name \in Names :
          IF UniqueViolated(categories, name)
          THEN /\ clast' = [NoCreate EXCEPT !.op = "create_category",
                               !.name = name, !.err = "IntegrityError"]
               /\ UNCHANGED <<categories, cat_seq>>
          ELSE LET row == StoredRow(categories, cat_seq, name, 0)
               IN /\ categories' = categories \cup {row}
                  /\ cat_seq' = cat_seq + 1
                  /\ clast' = Created("create_category", row)
    /\ UNCHANGED <<items, sku_tbl, tr_tbl, item_seq, sku_seq, tr_seq, gone>>

\* ItemModel.create_item inside BaseDBModel.session, for a stored category
create_item ==
    /\ item_seq < MaxCreated
    /\ \E name \in Names, c \in categories :
          IF UniqueViolated(items, name)
          THEN /\ clast' = [NoCreate EXCEPT !.op = "create_item",
                               !.name = name, !.parent = c.id,
                               !.err = "IntegrityError"]
               /\ UNCHANGED <<items, item_seq>>
          ELSE LET row == StoredRow(items, item_seq, name, c.id)
               IN /\ items' = items \cup {row}
                  /\ item_seq' = item_seq + 1
                  /\ clast' = Created("create_item", row)
    /\ UNCHANGED <<categories, sku_tbl, tr_tbl, cat_seq, sku_seq, tr_seq, gone>>

\* SkuModel.create_sku for a stored item, TransactionModel.create_transaction
\* for a stored SKU
create_sku_or_transaction ==
    /\ \E name \in Names :
          \/ /\ sku_seq < MaxChildren
             /\ \E i \in items :
                   LET row == StoredRow(sku_tbl, sku_seq, name, i.id)
                   IN /\ sku_tbl' = sku_tbl \cup {row}
                      /\ sku_seq' = sku_seq + 1
                      /\ clast' = Created("create_sku", row)
             /\ UNCHANGED <<tr_tbl, tr_seq>>
          \/ /\ tr_seq < MaxChildren
             /\ \E s \in sku_tbl :
                   LET row == StoredRow(tr_tbl, tr_seq, name, s.id)
                   IN /\ tr_tbl' = tr_tbl \cup {row}
                      /\ tr_seq' = tr_seq + 1
                      /\ clast' = Created("create_transaction", row)
             /\ UNCHANGED <<sku_tbl, sku_seq>>
    /\ UNCHANGED <<categories, items, cat_seq, item_seq, gone>>

\* the rows of a table whose parent is one of the given rows
ChildrenOf(rows, parents) ==
    {r \in rows : r.parent \in {q.id : q \in parents}}

\* the rows a delete takes with it, by table: the relationships cascade
\* "all, delete-orphan" from category to item, to SKU, to transaction
Cascade(ds_c, ds_i) ==
    LET its == ds_i \cup ChildrenOf(items, ds_c)
        ss == ChildrenOf(sku_tbl, its)
        ts == ChildrenOf(tr_tbl, ss)
    IN [category |-> ds_c, item |-> its, sku |-> ss, transaction |-> ts]

Tables == {"category", "item", "sku", "transaction"}

\* variant: the delete is not committed
RemainingAll(rows, dead) == rows

\* the rows of a table after session.delete and the commit
Remaining(rows, dead) == rows \ dead

\* the stored rows of a table
TableRows(tb) ==
    CASE tb = "category" -> categories
      [] tb = "item" -> items
      [] tb = "sku" -> sku_tbl
      [] tb = "transaction" -> tr_tbl

\* CategoryModel.delete_category, ItemModel.delete_item: session.get,
\* session.delete, commit
delete_category_or_item ==
    /\ \E tb \in {"category", "item"} : \E d \in TableRows(tb) :
          LET dead == IF tb = "category" THEN Cascade({d}, {})
                      ELSE Cascade({}, {d})
          IN /\ categories' = Remaining(categories, dead.category)
             /\ items' = Remaining(items, dead.item)
             /\ sku_tbl' = Remaining(sku_tbl, dead.sku)
             /\ tr_tbl' = Remaining(tr_tbl, dead.transaction)
             /\ gone' = gone \cup UNION
                   {{[table |-> x, id |-> r.id, uid |-> r.uid] : r \in dead[x]} :
                       x \in Tables}
             /\ clast' = [NoCreate EXCEPT !.op = "delete", !.table = tb,
                             !.name = d.name, !.id = d.id]
    /\ UNCHANGED <<cat_seq, item_seq, sku_seq, tr_seq>>

\* variant: the rows are looked up by the order of their creation
GetByUid(tb, id) == {r \in TableRows(tb) : r.uid = id}

\* get_category, get_item (session.get), get_sku (select by sku_id) and
\* get_transaction (select joined with its SKU and the SKU's item)
GetById(tb, id) ==
    IF tb = "transaction"
    THEN {r \in tr_tbl : /\ r.id = id
                      /\ \E s \in sku_tbl : /\ s.id = r.parent
                                         /\ \E i \in items : i.id = s.parent}
    ELSE {r \in TableRows(tb) : r.id = id}

\* a fetch by id, of any table
get_by_id ==
    /\ \E tb \in Tables, id \in 1 .. MaxCreated :
          clast' = [NoCreate EXCEPT !.op = "get", !.table = tb, !.id = id,
                                    !.out = GetById(tb, id)]
    /\ UNCHANGED <<categories, items, sku_tbl, tr_tbl, cat_seq, item_seq, sku_seq,
                   tr_seq, gone>>

\* get_all_categories, get_all_items
get_all ==
    /\ \E tb \in {"category", "item"} :
          clast' = [NoCreate EXCEPT !.op = "get_all", !.table = tb,
                                    !.out = TableRows(tb)]
    /\ UNCHANGED <<categories, items, sku_tbl, tr_tbl, cat_seq, item_seq, sku_seq,
                   tr_seq, gone>>

(***************************************************************************)
(* The edit locks of the item, SKU and transaction widgets.  Every widget  *)
(* has a group box edit_mode that holds its add, delete and save buttons;  *)
(* the boxes of the item and the SKU widget are checkable.  A widget       *)
(* emits edit_lock_signal and edit_unlock_signal of the main window with   *)
(* its own name, and every widget listens to both.                         *)
(***************************************************************************)
Widgets == {"item_widget", "sku_widget", "tr_widget"}

CheckableWidgets == {"item_widget", "sku_widget"}

InitLock ==
    /\ edit_enabled = [w \in Widgets |-> TRUE]
    /\ edit_checked = [w \in Widgets |-> FALSE]
    /\ staged = [w \in Widgets |-> 0]
    /\ tr_flagged = 0
    /\ user_privilege \in {"Admin", "User"}
    /\ tr_window_open = FALSE

\* edit_lock_signal.emit(sender): disable_edit_mode of every widget
disable_edit_mode(en, sender) ==
    [w \in Widgets |-> IF w # sender THEN FALSE ELSE en[w]]

\* edit_unlock_signal.emit(sender): enable_edit_mode of every widget
enable_edit_mode(en, sender) ==
    [w \in Widgets |-> IF w # sender THEN TRUE ELSE en[w]]

\* ItemWidget.edit_mode_clicked, SkuWidget.edit_mode_clicked: the user
\* clicks the check box of an enabled group box
widget_edit_mode_clicked ==
    /\ \E w \in CheckableWidgets :
          /\ edit_enabled[w]
          /\ IF ~edit_checked[w]
             THEN \* edit_mode_starts
                  /\ edit_checked' = [edit_checked EXCEPT ![w] = TRUE]
                  /\ edit_enabled' = disable_edit_mode(edit_enabled, w)
             ELSE IF staged[w] > 0
             THEN \* the model is editing: setChecked(True)
                  UNCHANGED <<edit_checked, edit_enabled>>
             ELSE \* edit_mode_ends
                  /\ edit_checked' = [edit_checked EXCEPT ![w] = FALSE]
                  /\ edit_enabled' = enable_edit_mode(edit_enabled, w)
    /\ UNCHANGED <<staged, tr_flagged, user_privilege, tr_window_open>>

\* ItemWidget.do_actions("add_item"), SkuWidget.do_actions("add_sku"): the
\* add button of a checked group box appends a New row
widget_do_actions ==
    /\ \E w \in CheckableWidgets :
          /\ edit_enabled[w]
          /\ edit_checked[w]
          /\ staged[w] < MaxStaged
          /\ staged' = [staged EXCEPT ![w] = @ + 1]
    /\ UNCHANGED <<edit_enabled, edit_checked, tr_flagged, user_privilege,
                   tr_window_open>>

\* ItemWidget.save_model_to_db, SkuWidget.save_model_to_db: the save button
\* of a checked group box; the box is unchecked and edit_mode_ends
widget_save_model_to_db ==
    /\ \E w \in CheckableWidgets :
          /\ edit_enabled[w]
          /\ edit_checked[w]
          /\ staged' = [staged EXCEPT ![w] = 0]
          /\ edit_checked' = [edit_checked EXCEPT ![w] = FALSE]
          /\ edit_enabled' = enable_edit_mode(edit_enabled, w)
    /\ UNCHANGED <<tr_flagged, user_privilege, tr_window_open>>

\* TrWidget.add_new_row from the buy, sell and adjust buttons of the
\* enabled group box: a New row is appended and a SingleTrWindow is shown
tr_add_new_row ==
    /\ edit_enabled["tr_widget"]
    /\ ~tr_window_open
    /\ staged["tr_widget"] < MaxStaged
    /\ staged' = [staged EXCEPT !["tr_widget"] = @ + 1]
    /\ tr_window_open' = TRUE
    /\ UNCHANGED <<edit_enabled, edit_checked, tr_flagged, user_privilege>>

\* SingleTrWindow.ok_clicked and TrWidget.added_new_tr_by_single_tr_window:
\* a row that fails validate_new_row is dropped, otherwise the model is
\* editing and edit_lock_signal is emitted
added_new_tr_by_single_tr_window ==
    /\ tr_window_open
    /\ tr_window_open' = FALSE
    /\ \E valid \in BOOLEAN :
          IF valid
          THEN /\ edit_enabled' = disable_edit_mode(edit_enabled, "tr_widget")
               /\ UNCHANGED staged
          ELSE /\ staged' = [staged EXCEPT !["tr_widget"] = @ - 1]
               /\ UNCHANGED edit_enabled
    /\ UNCHANGED <<edit_checked, tr_flagged, user_privilege>>

\* SingleTrWindow.exit_clicked: the window is closed, nothing is emitted
\* and the New row stays in the model
tr_exit_clicked ==
    /\ tr_window_open
    /\ tr_window_open' = FALSE
    /\ UNCHANGED <<edit_enabled, edit_checked, staged, tr_flagged, user_privilege>>

\* a double click on a row of the SKU table while the SKU widget is not in
\* edit mode: InventoryWindow.sku_selected filters the transaction table,
\* which drops its New rows; no signal is emitted
sku_selected ==
    /\ ~edit_checked["sku_widget"]
    /\ ~tr_window_open
    /\ staged' = [staged EXCEPT !["tr_widget"] = 0]
    /\ UNCHANGED <<edit_enabled, edit_checked, tr_flagged, user_privilege,
                   tr_window_open>>

\* TrWidget.do_actions("del_tr"): the button an Admin has below the table,
\* outside the group box: the Deleted flag of the selected stored
\* transaction is toggled; no signal is emitted
del_tr ==
    /\ user_privilege = "Admin"
    /\ \E d \in {-1, 1} :
          /\ tr_flagged + d \in 0 .. MaxStaged
          /\ tr_flagged' = tr_flagged + d
    /\ UNCHANGED <<edit_enabled, edit_checked, staged, user_privilege,
                   tr_window_open>>

\* TrWidget.save_model_to_db from the save button of the enabled group
\* box, when no window is shown: the rows are saved and edit_unlock_signal
\* is emitted
tr_save_model_to_db ==
    /\ edit_enabled["tr_widget"]
    /\ ~tr_window_open
    /\ staged' = [staged EXCEPT !["tr_widget"] = 0]
    /\ tr_flagged' = 0
    /\ edit_enabled' = enable_edit_mode(edit_enabled, "tr_widget")
    /\ UNCHANGED <<edit_checked, user_privilege, tr_window_open>>

(***************************************************************************)
(* The specifications.                                                     *)
(***************************************************************************)
\* the table model at rest, for the specifications that do not move it
ModelIdle ==
    /\ db = EmptyFn
    /\ db_seq = 1
    /\ lab_df = <<>>
    /\ model_df = <<>>
    /\ new_rows_set = {}
    /\ uneditable_rows_set = {}
    /\ is_editable = FALSE
    /\ edit_mode = FALSE
    /\ msg = NoMsg
    /\ pre_del = EmptyFn
    /\ last = Did("init", {}, FALSE)
    /\ exited = FALSE

SessionIdle ==
    /\ store = {}
    /\ work = {}
    /\ pc = "idle"
    /\ exc = "none"
    /\ ended = NoEnd

StockIdle ==
    /\ item_active = [i \in ItemIds |-> TRUE]
    /\ sku_lab = <<>>
    /\ sku_df = <<>>
    /\ sku_upper_id = 0
    /\ tr_df = <<>>
    /\ tr_db = <<>>
    /\ tr_upper_id = 0
    /\ tr_window = FALSE
    /\ slast = NoOp

ValidateIdle ==
    /\ vin = [tr_type_id |-> 0, tr_qty |-> 0, before_qty |-> 0, after_qty |-> 0]
    /\ vout = NoResult

PagerIdle ==
    /\ n_stored = 0
    /\ max_transaction_count = 1
    /\ page_data = <<>>
    /\ current_page = 0
    /\ total_records = 0
    /\ plast = NoCall

PageIdle == backend = "sqlite" /\ PagerIdle

CatalogIdle == InitCatalog

LockIdle == InitLock /\ user_privilege = "User"

Init == InitModel /\ InitBridge /\ SessionIdle /\ StockIdle /\ ValidateIdle /\ PageIdle /\ CatalogIdle /\ LockIdle

Next ==
    \/ edit_mode_clicked /\ UNCHANGED <<bridgeVars, sessionVars, stockVars, validateVars, pageVars, catalogVars, lockVars>>
    \/ append_new_row /\ UNCHANGED <<bridgeVars, sessionVars, stockVars, validateVars, pageVars, catalogVars, lockVars>>
    \/ setData /\ UNCHANGED <<bridgeVars, sessionVars, stockVars, validateVars, pageVars, catalogVars, lockVars>>
    \/ delete_rows /\ UNCHANGED <<bridgeVars, sessionVars, stockVars, validateVars, pageVars, catalogVars, lockVars>>
    \/ filter_for_selected_upper_id /\ UNCHANGED <<bridgeVars, sessionVars, stockVars, validateVars, pageVars, catalogVars, lockVars>>
    \/ save_model_to_db /\ UNCHANGED <<bridgeVars, sessionVars, stockVars, validateVars, pageVars, catalogVars, lockVars>>
    \/ update_all /\ UNCHANGED <<bridgeVars, sessionVars, stockVars, validateVars, pageVars, catalogVars, lockVars>>
    \/ close_message /\ UNCHANGED <<bridgeVars, sessionVars, stockVars, validateVars, pageVars, catalogVars, lockVars>>

Spec == Init /\ [][Next]_vars

InitB == ModelIdle /\ InitBridge /\ SessionIdle /\ StockIdle /\ ValidateIdle /\ PageIdle /\ CatalogIdle /\ LockIdle

NextBridge ==
    \/ on_worker_started /\ UNCHANGED <<modelVars, sessionVars, stockVars, validateVars, pageVars, catalogVars, lockVars>>
    \/ continue_loop /\ UNCHANGED <<modelVars, sessionVars, stockVars, validateVars, pageVars, catalogVars, lockVars>>
    \/ run_once_select /\ UNCHANGED <<modelVars, sessionVars, stockVars, validateVars, pageVars, catalogVars, lockVars>>
    \/ run_callback /\ UNCHANGED <<modelVars, sessionVars, stockVars, validateVars, pageVars, catalogVars, lockVars>>
    \/ close_dialog /\ UNCHANGED <<modelVars, sessionVars, stockVars, validateVars, pageVars, catalogVars, lockVars>>
    \/ end_iteration /\ UNCHANGED <<modelVars, sessionVars, stockVars, validateVars, pageVars, catalogVars, lockVars>>
    \/ db_call_returns /\ UNCHANGED <<modelVars, sessionVars, stockVars, validateVars, pageVars, catalogVars, lockVars>>
    \/ db_call_hangs /\ UNCHANGED <<modelVars, sessionVars, stockVars, validateVars, pageVars, catalogVars, lockVars>>

SpecBridge == InitB /\ [][NextBridge]_vars

\* a step of the bridge that leaves the rest alone
BridgeStep(A) ==
    A /\ UNCHANGED <<modelVars, sessionVars, stockVars, validateVars, pageVars, catalogVars, lockVars>>

\* the bridge when every database call returns and every dialog is closed:
\* the loops, the database and the user closing a dialog take the steps
\* they can take; the user starts actions when they like
NextBridgeLive ==
    \/ BridgeStep(on_worker_started)
    \/ BridgeStep(close_dialog)
    \/ BridgeStep(continue_loop)
    \/ BridgeStep(run_once_select)
    \/ BridgeStep(run_callback)
    \/ BridgeStep(end_iteration)
    \/ BridgeStep(db_call_returns)

SpecBridgeLive ==
    /\ InitB
    /\ [][NextBridgeLive]_vars
    /\ WF_vars(BridgeStep(close_dialog))
    /\ WF_vars(BridgeStep(continue_loop))
    /\ WF_vars(BridgeStep(run_once_select))
    /\ WF_vars(BridgeStep(run_callback))
    /\ WF_vars(BridgeStep(end_iteration))
    /\ WF_vars(BridgeStep(db_call_returns))

InitS == ModelIdle /\ InitBridge /\ InitSession /\ StockIdle /\ ValidateIdle /\ PageIdle /\ CatalogIdle /\ LockIdle

NextSession ==
    \/ session_enter /\ UNCHANGED <<modelVars, bridgeVars, stockVars, validateVars, pageVars, catalogVars, lockVars>>
    \/ body_writes /\ UNCHANGED <<modelVars, bridgeVars, stockVars, validateVars, pageVars, catalogVars, lockVars>>
    \/ body_returns /\ UNCHANGED <<modelVars, bridgeVars, stockVars, validateVars, pageVars, catalogVars, lockVars>>
    \/ body_raises /\ UNCHANGED <<modelVars, bridgeVars, stockVars, validateVars, pageVars, catalogVars, lockVars>>
    \/ session_commit /\ UNCHANGED <<modelVars, bridgeVars, stockVars, validateVars, pageVars, catalogVars, lockVars>>
    \/ session_rollback /\ UNCHANGED <<modelVars, bridgeVars, stockVars, validateVars, pageVars, catalogVars, lockVars>>
    \/ session_close /\ UNCHANGED <<modelVars, bridgeVars, stockVars, validateVars, pageVars, catalogVars, lockVars>>

SpecSession == InitS /\ [][NextSession]_vars

InitK == ModelIdle /\ InitBridge /\ SessionIdle /\ InitStock /\ ValidateIdle /\ PageIdle /\ CatalogIdle /\ LockIdle

NextSku ==
    \/ sku_set_upper_model_id /\ UNCHANGED <<modelVars, bridgeVars, sessionVars, validateVars, pageVars, catalogVars, lockVars>>
    \/ sku_append_new_row /\ UNCHANGED <<modelVars, bridgeVars, sessionVars, validateVars, pageVars, catalogVars, lockVars>>
    \/ sku_setData /\ UNCHANGED <<modelVars, bridgeVars, sessionVars, validateVars, pageVars, catalogVars, lockVars>>
    \/ is_sku_qty_correct_called /\ UNCHANGED <<modelVars, bridgeVars, sessionVars, validateVars, pageVars, catalogVars, lockVars>>

SpecSku == InitK /\ [][NextSku]_vars

NextStock ==
    \/ sku_set_upper_model_id /\ UNCHANGED <<modelVars, bridgeVars, sessionVars, validateVars, pageVars, catalogVars, lockVars>>
    \/ sku_append_new_row /\ UNCHANGED <<modelVars, bridgeVars, sessionVars, validateVars, pageVars, catalogVars, lockVars>>
    \/ tr_set_upper_model_id /\ UNCHANGED <<modelVars, bridgeVars, sessionVars, validateVars, pageVars, catalogVars, lockVars>>
    \/ tr_append_new_row /\ UNCHANGED <<modelVars, bridgeVars, sessionVars, validateVars, pageVars, catalogVars, lockVars>>
    \/ ok_clicked /\ UNCHANGED <<modelVars, bridgeVars, sessionVars, validateVars, pageVars, catalogVars, lockVars>>
    \/ exit_clicked /\ UNCHANGED <<modelVars, bridgeVars, sessionVars, validateVars, pageVars, catalogVars, lockVars>>
    \/ tr_save /\ UNCHANGED <<modelVars, bridgeVars, sessionVars, validateVars, pageVars, catalogVars, lockVars>>

SpecStock == InitK /\ [][NextStock]_vars

InitV == ModelIdle /\ InitBridge /\ SessionIdle /\ StockIdle /\ InitValidate /\ PageIdle /\ CatalogIdle /\ LockIdle

NextValidate ==
    \/ validate_transaction_called /\ UNCHANGED <<modelVars, bridgeVars, sessionVars, stockVars, pageVars, catalogVars, lockVars>>
    \/ validate_new_row_called /\ UNCHANGED <<modelVars, bridgeVars, sessionVars, stockVars, pageVars, catalogVars, lockVars>>
    \/ validate_quantities_called /\ UNCHANGED <<modelVars, bridgeVars, sessionVars, stockVars, pageVars, catalogVars, lockVars>>
    \/ update_quantities_called /\ UNCHANGED <<modelVars, bridgeVars, sessionVars, stockVars, pageVars, catalogVars, lockVars>>

SpecValidate == InitV /\ [][NextValidate]_vars

OthersIdle == ModelIdle /\ InitBridge /\ SessionIdle /\ StockIdle /\ ValidateIdle /\ LockIdle

InitP == OthersIdle /\ InitPage /\ CatalogIdle

NextPage ==
    \/ load_data /\ UNCHANGED <<modelVars, bridgeVars, sessionVars, stockVars, validateVars, catalogVars, lockVars>>
    \/ load_more /\ UNCHANGED <<modelVars, bridgeVars, sessionVars, stockVars, validateVars, catalogVars, lockVars>>
    \/ set_max_transaction_count /\ UNCHANGED <<modelVars, bridgeVars, sessionVars, stockVars, validateVars, catalogVars, lockVars>>

SpecPage == InitP /\ [][NextPage]_vars

\* one load_data, then load_more for as long as it can be called
first_load == plast.op = "none" /\ load_data

NextPaging ==
    \/ first_load /\ UNCHANGED <<modelVars, bridgeVars, sessionVars, stockVars, validateVars, catalogVars, lockVars>>
    \/ load_more /\ UNCHANGED <<modelVars, bridgeVars, sessionVars, stockVars, validateVars, catalogVars, lockVars>>

SpecPaging == InitP /\ [][NextPaging]_vars /\ WF_vars(NextPaging)

InitC == OthersIdle /\ backend \in Backends /\ PagerIdle /\ InitCatalog

NextCatalog ==
    \/ create_category /\ UNCHANGED <<modelVars, bridgeVars, sessionVars, stockVars, validateVars, pageVars, lockVars>>
    \/ create_item /\ UNCHANGED <<modelVars, bridgeVars, sessionVars, stockVars, validateVars, pageVars, lockVars>>
    \/ create_sku_or_transaction /\ UNCHANGED <<modelVars, bridgeVars, sessionVars, stockVars, validateVars, pageVars, lockVars>>
    \/ delete_category_or_item /\ UNCHANGED <<modelVars, bridgeVars, sessionVars, stockVars, validateVars, pageVars, lockVars>>
    \/ get_by_id /\ UNCHANGED <<modelVars, bridgeVars, sessionVars, stockVars, validateVars, pageVars, lockVars>>
    \/ get_all /\ UNCHANGED <<modelVars, bridgeVars, sessionVars, stockVars, validateVars, pageVars, lockVars>>

SpecCatalog == InitC /\ [][NextCatalog]_vars

InitL == ModelIdle /\ InitBridge /\ SessionIdle /\ StockIdle /\ ValidateIdle /\ PageIdle /\ CatalogIdle /\ InitLock

NextLock ==
    \/ widget_edit_mode_clicked /\ UNCHANGED <<modelVars, bridgeVars, sessionVars, stockVars, validateVars, pageVars, catalogVars>>
    \/ widget_do_actions /\ UNCHANGED <<modelVars, bridgeVars, sessionVars, stockVars, validateVars, pageVars, catalogVars>>
    \/ widget_save_model_to_db /\ UNCHANGED <<modelVars, bridgeVars, sessionVars, stockVars, validateVars, pageVars, catalogVars>>
    \/ tr_add_new_row /\ UNCHANGED <<modelVars, bridgeVars, sessionVars, stockVars, validateVars, pageVars, catalogVars>>
    \/ added_new_tr_by_single_tr_window /\ UNCHANGED <<modelVars, bridgeVars, sessionVars, stockVars, validateVars, pageVars, catalogVars>>
    \/ tr_exit_clicked /\ UNCHANGED <<modelVars, bridgeVars, sessionVars, stockVars, validateVars, pageVars, catalogVars>>
    \/ sku_selected /\ UNCHANGED <<modelVars, bridgeVars, sessionVars, stockVars, validateVars, pageVars, catalogVars>>
    \/ del_tr /\ UNCHANGED <<modelVars, bridgeVars, sessionVars, stockVars, validateVars, pageVars, catalogVars>>
    \/ tr_save_model_to_db /\ UNCHANGED <<modelVars, bridgeVars, sessionVars, stockVars, validateVars, pageVars, catalogVars>>

SpecLock == InitL /\ [][NextLock]_vars

(***************************************************************************)
(* What the table view shows of model_df.                                  *)
(***************************************************************************)
\* PandasModel.rowCount with the QSortFilterProxyModel of the widget: the
\* proxy filters on the key column (the parent id), never on the flag, so
\* every row of model_df is a row of the view
DisplayedRows(df) == Positions(df)

\* variant: the Changed colour is looked at before the Deleted colour
BackgroundChangedFirst(flag) ==
    IF HasFlag(flag, ChangedRow) THEN "green"
    ELSE IF HasFlag(flag, DeletedRow) THEN "darkGray"
    ELSE IF HasFlag(flag, NewRow) THEN "yellow"
    ELSE "plain"

\* DataModel.data(index, Qt.BackgroundRole) for a row of an active record
Background(flag) ==
    IF HasFlag(flag, DeletedRow) THEN "darkGray"
    ELSE IF HasFlag(flag, NewRow) THEN "yellow"
    ELSE IF HasFlag(flag, ChangedRow) THEN "green"
    ELSE "plain"

(***************************************************************************)
(* Properties of the table model, checked under Spec.                      *)
(*                                                                         *)
(* A state with msg.shown is the state in which do_db_work has saved and   *)
(* fetched again and its result dialog is open: msg.ops are the statements *)
(* the save issued, msg.results what each batch answered and msg.staged    *)
(* the rows that were flagged when the save began.                         *)
(***************************************************************************)
BatchKinds == {"delete", "insert", "update"}
SaveFailed == \E k \in BatchKinds : msg.results[k] = "fail"
OpsOfKind(k) == {i \in DOMAIN msg.ops : msg.ops[i].kind = k}
OpsOnId(id) == {i \in DOMAIN msg.ops : msg.ops[i].id = id}
StagedWith(bit) == {s \in msg.staged : HasFlag(s.flag, bit)}

\* C1: within one save every delete is issued before every insert and every
\* insert before every update.
C1_DeleteInsertUpdateOrder ==
    msg.shown =>
        /\ \A i \in OpsOfKind("delete"), j \in OpsOfKind("insert") \cup OpsOfKind("update") :
              i < j
        /\ \A i \in OpsOfKind("insert"), j \in OpsOfKind("update") : i < j

\* a save that issued a delete, an insert and an update
C1_Witness ==
    /\ msg.shown
    /\ \A k \in BatchKinds : OpsOfKind(k) # {} /\ msg.results[k] = "ok"

\* C2: when a batch of the save failed, every row that was staged before the
\* save is still in the model, flagged as it was.
C2_FailedSaveKeepsStagedRows ==
    (msg.shown /\ SaveFailed) =>
        \A s \in msg.staged :
            \E i \in DOMAIN model_df :
                model_df[i].id = s.id /\ model_df[i].flag = s.flag

\* C3: after a save none of whose batches failed, no row of the model is
\* flagged and the rows that were flagged Deleted are not in the model.
C3_SaveClearsFlags ==
    (msg.shown /\ ~SaveFailed) =>
        /\ ~is_model_editing(model_df)
        /\ \A s \in StagedWith(DeletedRow) : s.id \notin Ids(model_df)

\* a successful save of a batch with a Deleted row and a New or Changed row
C3_Witness ==
    /\ msg.shown
    /\ ~SaveFailed
    /\ StagedWith(DeletedRow) # {}
    /\ msg.staged \ StagedWith(DeletedRow) # {}
    /\ model_df # <<>>

\* the statement a staged row calls for; a row whose Deleted bit is set is a
\* Deleted row whatever its other bits
OpKindOf(flag) ==
    IF HasFlag(flag, DeletedRow) THEN "delete"
    ELSE IF HasFlag(flag, NewRow) THEN "insert"
    ELSE "update"

\* C4: a save issues exactly one statement for every staged row, the one
\* matching its state (insert for New, update for Changed, delete for
\* Deleted), and no statement for any other row.
C4_OneMatchingOpPerStagedRow ==
    msg.shown =>
        /\ \A s \in msg.staged :
              /\ Cardinality(OpsOnId(s.id)) = 1
              /\ \A i \in OpsOnId(s.id) : msg.ops[i].kind = OpKindOf(s.flag)
        /\ \A i \in DOMAIN msg.ops : \E s \in msg.staged : s.id = msg.ops[i].id

\* a save of a New, a Changed and a Deleted row while an Original row stays
\* or a row is both Changed and Deleted
C4_Witness ==
    /\ msg.shown
    /\ \E s \in msg.staged : s.flag = NewRow
    /\ \E s \in msg.staged : s.flag = ChangedRow
    /\ \E s \in msg.staged : HasFlag(s.flag, DeletedRow) /\ HasFlag(s.flag, ChangedRow)

\* C8 as stated: the flag of every row is one of the four single states.
C8_FlagIsOneState ==
    \A i \in DOMAIN model_df :
        model_df[i].flag \in {OriginalRow, NewRow, ChangedRow, DeletedRow}

\* C8: the flag of every row is Original, New, Changed or Deleted, or Deleted
\* together with Changed; New is never combined with another state.
C8_FlagIsOneStateOrChangedDeleted ==
    \A i \in DOMAIN model_df :
        model_df[i].flag \in {OriginalRow, NewRow, ChangedRow, DeletedRow,
                              FlagOr(ChangedRow, DeletedRow)}

\* a row that is Changed and Deleted at once, beside a New row
C8_Witness ==
    /\ \E i \in DOMAIN model_df : model_df[i].flag = FlagOr(ChangedRow, DeletedRow)
    /\ \E i \in DOMAIN model_df : model_df[i].flag = NewRow

\* a step of setData that returned normally
SetDataStep == last'.op = "setData" /\ ~last'.raised

\* C9 as stated: an edit moves an Original row to Changed and leaves a New
\* row New.
C9_EditMovesOriginalToChanged ==
    [][SetDataStep =>
        \A p \in last'.rows :
            /\ At(model_df, p).flag = OriginalRow => At(model_df', p).flag = ChangedRow
            /\ At(model_df, p).flag = NewRow => At(model_df', p).flag = NewRow]_vars

\* C9: an edit moves an Original row to Changed exactly when it leaves the
\* row different from the row fetched from the database, otherwise the row
\* stays Original; an edit leaves a New row New.
C9_EditMovesOriginalToChangedIfDifferent ==
    [][SetDataStep =>
        \A p \in last'.rows :
            /\ At(model_df, p).flag = OriginalRow =>
                  At(model_df', p).flag =
                      IF At(model_df', p).val # At(lab_df, p).val
                      THEN ChangedRow ELSE OriginalRow
            /\ At(model_df, p).flag = NewRow => At(model_df', p).flag = NewRow]_vars

\* an edit has just moved a row to Changed while a New row is in the model
C9_Witness ==
    /\ last.op = "setData"
    /\ ~last.raised
    /\ \E p \in last.rows : At(model_df, p).flag = ChangedRow
    /\ \E i \in DOMAIN model_df : model_df[i].flag = NewRow

\* C10: a delete on a row that is not New flags it Deleted, keeping its other
\* bits, and a delete on a row flagged Deleted gives it back the flag it had
\* before it was flagged Deleted.
C10_DeleteToggles ==
    [][(last'.op = "delete_rows" /\ ~last'.raised) =>
        \A r \in last'.rows :
            LET old == At(model_df, r)
            IN ~HasFlag(old.flag, NewRow) =>
                \E i \in DOMAIN model_df' :
                    /\ model_df'[i].id = old.id
                    /\ IF HasFlag(old.flag, DeletedRow)
                       THEN /\ model_df'[i].flag = pre_del[old.id]
                            /\ ~HasFlag(pre_del[old.id], DeletedRow)
                       ELSE /\ model_df'[i].flag = FlagOr(old.flag, DeletedRow)
                            /\ pre_del'[old.id] = old.flag]_vars

\* a second delete has just given a row its Changed state back
C10_Witness ==
    /\ last.op = "delete_rows"
    /\ ~last.raised
    /\ \E r \in last.rows \cap Positions(model_df) :
          /\ At(model_df, r).flag = ChangedRow
          /\ At(model_df, r).id \notin DOMAIN pre_del

\* the positions of the New rows a delete or a cancel is about: the New rows
\* among the selected rows, or every New row when the user cancels
NewRowsConcerned ==
    IF last'.op = "filter"
    THEN {p \in Positions(model_df) : HasFlag(At(model_df, p).flag, NewRow)}
    ELSE {p \in last'.rows \cap Positions(model_df) :
              HasFlag(At(model_df, p).flag, NewRow)}

\* C11: a delete or a cancel removes exactly the New rows concerned from
\* the model, and changes nothing in the database.
C11_NewRowsRemovedLocally ==
    [][last'.op \in {"delete_rows", "filter"} =>
        /\ Ids(model_df') =
              Ids(model_df) \ {At(model_df, p).id : p \in NewRowsConcerned}
        /\ db' = db
        /\ db_seq' = db_seq]_vars

\* a row that is Deleted and at a position of the view
DeletedShown(df) ==
    {p \in DisplayedRows(df) : HasFlag(At(df, p).flag, DeletedRow)}

C5_OneIterationOneEventPerRun ==
    /\ run_iters <= 1
    /\ run_posts <= 1
    /\ (phase = "idle" /\ run_iters = 1) => run_posts = 1

\* a step taken by a handler of the Qt loop
UiHandlerStep == bstep' \in {"continue_loop", "on_worker_started"}

SessionOver == pc = "idle" /\ ended.body # "none"

QtyConsistent(r) ==
    IF r.tr_type \in {"Buy", "AdjustmentPlus"}
    THEN r.after_qty = r.before_qty + r.tr_qty
    ELSE r.after_qty = r.before_qty - r.tr_qty

\* C13: every stored transaction and, once the entry window of a new
\* transaction is closed, every transaction of the table has after_qty = before_qty + tr_qty (Buy,
\* AdjustmentPlus) or after_qty = before_qty - tr_qty (Sell,
\* AdjustmentMinus).
C13_QuantitiesConsistent ==
    /\ \A i \in DOMAIN tr_db : QtyConsistent(tr_db[i])
    /\ ~tr_window => \A i \in DOMAIN tr_df : QtyConsistent(tr_df[i])

PlusTypeIds == {BUY, ADJUSTMENT_PLUS}
MinusTypeIds == {SELL, ADJUSTMENT_MINUS}

\* the sign a validator takes for the wrong one: validate_transaction wants
\* a positive quantity for Buy and AdjustmentPlus and a negative one for
\* Sell and AdjustmentMinus, validate_new_row a positive one for every type
WrongSigned ==
    IF vout.by = "validate_transaction"
    THEN \/ vin.tr_type_id \in PlusTypeIds /\ vin.tr_qty < 0
         \/ vin.tr_type_id \in MinusTypeIds /\ vin.tr_qty > 0
    ELSE vin.tr_qty < 0

SameItemSkus(id, item) ==
    {i \in DOMAIN sku_df : sku_df[i].sku_id = id /\ sku_df[i].item_id = item}

\* C17: a root_sku cell takes the value it is given when the value is the
\* id of a SKU of the table with the item of the edited SKU; any other
\* value is rejected and leaves the table as it was.
C17_RootSkuOfSameItemOnly ==
    [][slast'.op = "sku_setData" =>
        LET p == slast'.row
            v == slast'.arg
        IN IF SameItemSkus(v, At(sku_df, p).item_id) # {}
           THEN slast'.ok /\ At(sku_df', p).root_sku = v
           ELSE ~slast'.ok /\ sku_df' = sku_df]_vars

\* the id of an existing SKU of another item has just been rejected as root
C17_Witness ==
    /\ slast.op = "sku_setData"
    /\ ~slast.ok
    /\ slast.arg \in SkuIds(sku_df)

RECURSIVE QtyOfRows(_)
QtyOfRows(S) ==
    IF S = {} THEN 0
    ELSE LET i == CHOOSE j \in S : TRUE
         IN sku_df[i].sku_qty + QtyOfRows(S \ {i})

\* the positions of the SKUs whose root_sku is the given SKU
ChildRows(id) == {i \in DOMAIN sku_df : sku_df[i].root_sku = id}

\* C18: the check returns true exactly when no SKU has the given SKU as
\* root_sku or the quantity is the sum of the quantities of those that have.
C18_CorrectIffNoChildOrSum ==
    slast.op = "is_sku_qty_correct" =>
        (slast.ok <=> \/ ChildRows(slast.row) = {}
                      \/ slast.arg = QtyOfRows(ChildRows(slast.row)))

\* the check has been made for a SKU with two sub SKUs, one of them stocked
C18_Witness ==
    /\ slast.op = "is_sku_qty_correct"
    /\ slast.ok
    /\ slast.row # 0
    /\ Cardinality(ChildRows(slast.row)) = 2
    /\ slast.arg > 0

\* the SKU selected in the transaction table is active, with its item
SelectedSkuActive ==
    /\ SkuOf(sku_df, tr_upper_id).active
    /\ item_active[SkuOf(sku_df, tr_upper_id).item_id]

\* C19: a new SKU row is refused with NonExistentItemIdError when no item
\* is selected and with InactiveItemIdError when the selected item is
\* inactive; a new transaction row is refused with NonExistentSkuIdError
\* when no SKU is selected or the SKU is not in the SKU table, else with
\* InactiveSkuIdError when the SKU is inactive, else with
\* InvalidTrTypeError when no type is given.  A refused row leaves the
\* rows of its table unchanged, and no other new row is refused.
C19_NewRowRefusedWithDomainError ==
    [][/\ slast'.op = "sku_append_new_row" =>
            /\ slast'.err =
                  IF sku_upper_id = 0 THEN "NonExistentItemIdError"
                  ELSE IF ~item_active[sku_upper_id] THEN "InactiveItemIdError"
                  ELSE "none"
            /\ IF slast'.err = "none"
               THEN Len(sku_df') = Len(sku_df) + 1
               ELSE sku_df' = sku_df
       /\ slast'.op = "tr_append_new_row" =>
            /\ slast'.err =
                  IF tr_upper_id = 0 \/ tr_upper_id \notin SkuIds(sku_df)
                  THEN "NonExistentSkuIdError"
                  ELSE IF ~SelectedSkuActive THEN "InactiveSkuIdError"
                  ELSE IF slast'.tr_type = "none" THEN "InvalidTrTypeError"
                  ELSE "none"
            /\ IF slast'.err = "none"
               THEN Len(tr_df') = Len(tr_df) + 1
               ELSE tr_df' = tr_df]_vars

\* a new transaction row has just been refused because its SKU, selected
\* earlier, is no longer in the SKU table, beside a stored transaction
C19_Witness ==
    /\ slast.op = "tr_append_new_row"
    /\ slast.err = "NonExistentSkuIdError"
    /\ tr_upper_id # 0
    /\ tr_db # <<>>

(***************************************************************************)
(* Properties of the paged TransactionModel, checked under SpecPaging      *)
(* (one load_data, then load_more, weakly fair) and under SpecPage.        *)
(***************************************************************************)
\* C15: after the initial load, repeated load_more leads to a state where
\* the records in memory are as many as the total record count and
\* can_load_more is false.
C15_LoadMoreReachesTotal ==
    (plast.op = "load_data") ~>
        (Len(page_data) = total_records /\ ~can_load_more)

\* C16: after load_data and after every load_more the records in memory
\* are at most max_transaction_count.
C16_AtMostMaxTransactionCount ==
    plast.op \in {"load_data", "load_more"} =>
        Len(page_data) <= max_transaction_count

(***************************************************************************)
(* Properties of the category and item tables, checked under SpecCatalog.  *)
(***************************************************************************)
\* the names stored in a table
StoredNames(rows) == {r.name : r \in rows}

\* C20: a create_category with the name of a stored category, and a
\* create_item with the name of a stored item, raises, and leaves the
\* stored categories and items as they were.
C20_DuplicateNameRejected ==
    [][/\ (clast'.op = "create_category"
             /\ clast'.name \in StoredNames(categories))
          => (clast'.err # "none" /\ categories' = categories /\ items' = items)
       /\ (clast'.op = "create_item" /\ clast'.name \in StoredNames(items))
          => (clast'.err # "none" /\ categories' = categories /\ items' = items)
      ]_vars

\* an item with the name of a stored item has just been refused, while
\* another name is still free
C20_Witness ==
    /\ clast.op = "create_item"
    /\ clast.err = "IntegrityError"
    /\ clast.name \in StoredNames(items)
    /\ StoredNames(items) # Names

CreatedTable(op) ==
    CASE op = "create_category" -> "category"
      [] op = "create_item" -> "item"
      [] op = "create_sku" -> "sku"
      [] op = "create_transaction" -> "transaction"
      [] OTHER -> "none"

\* C22: a fetch by the id that a create has just returned gives exactly the
\* created record, with the name and the parent given to the create.
C22_CreateThenGetMatches ==
    [][(/\ CreatedTable(clast.op) # "none"
        /\ clast.err = "none"
        /\ clast'.op = "get"
        /\ clast'.table = CreatedTable(clast.op)
        /\ clast'.id = clast.id)
       => /\ clast'.out = clast.out
          /\ \E r \in clast'.out :
                /\ r.id = clast.id
                /\ r.name = clast.name
                /\ r.parent = clast.parent]_vars

\* a transaction has been fetched whose id had been given to an item that
\* was deleted since
C22_Witness ==
    /\ clast.op = "get"
    /\ clast.table = "transaction"
    /\ \E r \in clast.out : r.uid = tr_seq /\ r.name = MaxNames
    /\ \E g \in gone : g.table = "item" /\ g.id = clast.id

\* the deleted rows of the table the last fetch read
GoneOf(tb) == {g \in gone : g.table = tb}

\* C23 as stated: a fetch by the id of a deleted record returns nothing
\* and no fetch-all result holds a record with that id.
C23_DeletedIdNeverFetched ==
    clast.op \in {"get", "get_all"} =>
        \A g \in GoneOf(clast.table) : \A r \in clast.out : r.id # g.id

\* C23: no fetch returns a deleted record; a fetch by the id of a deleted
\* record returns nothing or a record created after the deletion, the
\* latter on SQLite only.
C23_DeletedRecordNeverFetched ==
    clast.op \in {"get", "get_all"} =>
        \A g \in GoneOf(clast.table) : \A r \in clast.out :
            /\ r.uid # g.uid
            /\ r.id = g.id => (r.uid > g.uid /\ backend = "sqlite")

\* an item that went with its category has just been fetched by id, with
\* no result, another item being stored
C23_Witness ==
    /\ clast.op = "get"
    /\ clast.table = "item"
    /\ clast.out = {}
    /\ items # {}
    /\ categories # {}
    /\ \E g \in GoneOf("item") : g.id = clast.id
    /\ \E g \in GoneOf("category") : TRUE

(***************************************************************************)
(* The end of a guest run, checked under SpecBridge, and the completion of *)
(* the tasks, checked under SpecBridgeLive.                                *)
(***************************************************************************)
\* the re-entries of action a still to come: next_guest_run_schedule
\* callbacks scheduled and ReenterQtEvents posted
Pending(a) ==
    Cardinality({i \in DOMAIN ready : ready[i].k = "ngrs" /\ ready[i].a = a})
    + Cardinality({i \in DOMAIN qt : qt[i] = a})

\* C24 as stated: once the task of an action has finished, no re-entry
\* event is posted for the action.
C24_NoEventPostedAfterDone ==
    [][\A a \in DOMAIN done : done[a] => qt' # Append(qt, a)]_vars

\* C24: once the task of an action has finished, and until the action is
\* started again, no re-entry is scheduled for it any more: the callbacks
\* already scheduled post their event, and continue_loop takes an event
\* of the action without scheduling anything in its place.
C24_NoReentryScheduledAfterDone ==
    [][\A a \in DOMAIN done :
          (done[a] /\ done'[a]) =>
              /\ Pending(a)' <= Pending(a)
              /\ (bstep' = "continue_loop" /\ qt # <<>> /\ Head(qt) = a
                     /\ qt' = Tail(qt))
                    => Pending(a)' < Pending(a)]_vars

\* the Qt loop has just handled the last re-entry event of a finished
\* action: both loops are at rest
C24_Witness ==
    /\ bstep = "continue_loop"
    /\ phase = "idle"
    /\ qt = <<>>
    /\ ready = <<>>
    /\ \E a \in DOMAIN done : done[a]
    /\ \A t \in TaskIds : tasks[t].st = "finished"
    /\ Len(tasks) = MaxTasks

\* C25: every task that was started reaches its end.
C25_EveryTaskCompletes ==
    \A t \in 1 .. MaxTasks :
        (t \in TaskIds) ~>
            (t \in TaskIds /\ tasks[t].st \in {"dialog", "finished"})

\* ---------------------------------------------------------------------
\* C26: when New transactions are saved, every SKU they belong to has,
\* in the SKU table held in memory and in the one stored, the after_qty of
\* its most recent stored transaction as sku_qty
AffectedSkus(trs) ==
    {get_new_df(trs)[i].sku_id : i \in DOMAIN get_new_df(trs)}

MostRecentOf(stored, id) ==
    LET mine == {i \in DOMAIN stored : stored[i].sku_id = id}
    IN stored[CHOOSE i \in mine : \A j \in mine : stored[j].tr_id <= stored[i].tr_id]

C27_AcceptedMovesStockItsWay ==
    (/\ vout.by = "validate_quantities"
     /\ vout.ok
     /\ validate_transaction(vin.tr_type_id, vin.tr_qty))
    => /\ vin.tr_type_id \in MinusTypeIds => vin.after_qty <= vin.before_qty
       /\ vin.tr_type_id \in PlusTypeIds => vin.after_qty >= vin.before_qty

\* ---------------------------------------------------------------------
\* C28: when can_load_more is true the next load_more appends at least one
\* record and returns true; when it is false load_more appends nothing and
\* returns false
C28_CanLoadMoreTellsLoadMore ==
    [][plast'.op = "load_more" =>
          IF can_load_more
          THEN /\ plast'.ok
               /\ Len(page_data') > Len(page_data)
          ELSE /\ ~plast'.ok
               /\ page_data' = page_data]_vars

\* ---------------------------------------------------------------------
\* the positions of the rows of a table that carry a flag
FlaggedPositions(df, f) == {p \in Positions(df) : HasFlag(At(df, p).flag, f)}

\* new_rows_set is the set of the positions of the rows flagged New and
\* uneditable_rows_set the set of the positions of the rows flagged Deleted
RowSetsAgree ==
    /\ new_rows_set = FlaggedPositions(model_df, NewRow)
    /\ uneditable_rows_set = FlaggedPositions(model_df, DeletedRow)

\* C30: the row sets agree with the flag column after every append, edit,
\* delete, cancel (the filter that drops the New rows) and save that started
\* from a table where they agreed
C30_RowSetsAgreeWithFlags ==
    [][(/\ RowSetsAgree
        /\ last'.op \in {"append_new_row", "setData", "delete_rows", "filter",
                          "save_model_to_db"})
         => RowSetsAgree']_vars

\* ---------------------------------------------------------------------
\* a widget is editing: its edit mode is checked or its model holds unsaved
\* rows
WidgetEditing(w) ==
    \/ edit_checked[w]
    \/ staged[w] > 0
    \/ w = "tr_widget" /\ tr_flagged > 0

\* C29: for a user without the Admin privilege and when no transaction
\* window is shown, at most one widget is editing and the edit controls of
\* the other two widgets are disabled
C29_OneEditorOthersDisabled ==
    (user_privilege = "User" /\ ~tr_window_open) =>
        \A w \in Widgets :
            WidgetEditing(w) =>
                \A v \in Widgets \ {w} : ~WidgetEditing(v) /\ ~edit_enabled[v]

====
